---- MODULE Spec2Model ----
(***************************************************************************)
(* ChannelStacker (multichannel-tool): the lane stack (ProjectModel), the  *)
(* export command builder (MainComponent::exportMultichannelWav), the      *)
(* preview player (AudioPlayer) and the waveform extractor                 *)
(* (WaveformExtractor), each as a state machine over its own variables.    *)
(* Strings are sequences of tokens; an argument vector is a sequence of    *)
(* strings.                                                                *)
(***************************************************************************)
EXTENDS Integers, Sequences, FiniteSets, TLC

VARIABLES
    lanes,          \* ProjectModel::lanes, the ordered stack of Lane objects
    nextUuid,       \* number of Lane objects created so far (Lane::uuid source)
    lastExport,     \* the most recent export launched (lane snapshot, args)
    prevExport,     \* the export launched before lastExport
    lastBatch,      \* the latest mono-files or stereo-pairs export: one command per file
    probe,          \* the probe handleDroppedFile launched: its result, then what was shown
    runs,           \* the transcode threads the latest export launched, in launch order
    exportQueue,    \* the export callbacks posted with MessageManager::callAsync, in order
    reload,         \* MainComponent::audioReloadPending and its debounce timer
    listeners,      \* ProjectModel::listeners, in registration order
    calls,          \* the Listener calls the latest ProjectModel call made, in order
    mix,            \* one preview decode followed from its lanes to the stereo buffer
    \* AudioPlayer
    loadState,      \* std::atomic<LoadState>
    loadGeneration, \* std::atomic<int>
    playing,        \* std::atomic<bool>
    shuttingDown,   \* std::atomic<bool>
    audioBuffer,    \* the stereo buffer: the decode it came from and its length
    currentSampleRate,
    readPosition,
    decodeThreads,  \* the thread decodeAudioAsync launched for each generation
    messageQueue,   \* callbacks posted with MessageManager::callAsync, in order
    controlPc,      \* where the message thread is inside play()
    audioPc,        \* where the audio thread is inside getNextAudioBlock
    lastPull,       \* what the latest getNextAudioBlock call delivered
    startedCount,   \* Listener::playbackStarted calls
    stoppedCount,   \* Listener::playbackStopped calls
    \* WaveformExtractor
    jobs,           \* the registry: lane uuid -> the ExtractionJob it owns (0: none)
    jobObjs,        \* the ExtractionJob objects and the thread launched for each
    nextJob,        \* number of ExtractionJob objects created so far
    waveform,       \* Lane::waveform of each Lane object
    waveformQueue,  \* posted notifyWaveformUpdated callbacks, in order
    staleAccess,    \* uses made of a Lane object after the model destroyed it
    cancelAllSeen,  \* the jobs whose thread was running when a cancelAll() returned
    writer          \* processAudioData statement by statement: the stores it has issued

modelVars  == <<lanes, nextUuid>>
probeVars  == <<probe>>
runVars    == <<runs, exportQueue>>
reloadVars == <<reload>>
listenVars == <<listeners, calls>>
mixVars    == <<mix>>
exportVars == <<lastExport, prevExport, lastBatch, probeVars, runVars, reloadVars, listenVars,
                mixVars>>
playerVars == <<loadState, loadGeneration, playing, shuttingDown, audioBuffer,
                currentSampleRate, readPosition, decodeThreads, messageQueue,
                controlPc, audioPc, lastPull, startedCount, stoppedCount>>
paintVars  == <<writer>>
extractVars == <<jobs, jobObjs, nextJob, waveform, waveformQueue, staleAccess, cancelAllSeen,
                 paintVars>>
vars == <<modelVars, exportVars, playerVars, extractVars>>

----------------------------------------------------------------------------
(* Bounds *)

MaxUuids   == 3     \* Lane objects ever created (so the stack holds at most as many)
MaxGen     == 2     \* loadGeneration values reached
MaxFloats  == 2     \* float samples a preview decode yields
MaxStarts  == 1     \* playbackStarted events counted
MaxQueue   == 1     \* callbacks waiting on the message thread
MaxJobs    == 2     \* ExtractionJob objects created while extraction threads run
MaxSmallFrames == 6 \* short decodes handed to processAudioData: 0..MaxSmallFrames frames
MaxMultiple == 2    \* long decodes: around 1..MaxMultiple times the envelope resolution
MaxPatterns == 2    \* sample patterns of a decode
MaxBuilderLanes == 3 \* lanes of a stack handed to the multichannel builder alone
MaxToolJobs == 1    \* extraction jobs followed from the drop to the delivered callback
MaxStreams == 2     \* elements of the streams array of a probe payload
MaxRunLanes == 3    \* Lane objects created while the transcode threads are followed
MaxPaintFrames == 2 \* frames of the decode whose envelope is written store by store
MaxReplays == 2     \* playbackStarted events counted when play() is pressed again
MaxNameDrops == 2   \* files dropped to make the stack the export names are built from

----------------------------------------------------------------------------
(* Strings *)

Digit == <<"0", "1", "2", "3", "4", "5", "6", "7", "8", "9">>

\* juce::String(int) for a non-negative int: its decimal digits.
RECURSIVE Str(_)
Str(n) == IF n < 10 THEN <<Digit[n + 1]>> ELSE Str(n \div 10) \o <<Digit[(n % 10) + 1]>>

RECURSIVE Concat(_)
Concat(ss) == IF ss = <<>> THEN <<>> ELSE Head(ss) \o Concat(Tail(ss))

\* juce::StringArray::addTokens(s, sep, ""): the pieces of s between separators.
RECURSIVE Tokens(_, _)
Tokens(s, sep) ==
    IF s = <<>> THEN <<>>
    ELSE LET n == IF \E i \in 1..Len(s) : s[i] = sep
                  THEN (CHOOSE i \in 1..Len(s) : s[i] = sep /\ \A j \in 1..(i - 1) : s[j] # sep) - 1
                  ELSE Len(s)
         IN  <<SubSeq(s, 1, n)>> \o (IF n >= Len(s) THEN <<>> ELSE Tokens(SubSeq(s, n + 2, Len(s)), sep))

----------------------------------------------------------------------------
(* Source files and what probing them reports (streams[0] of the result).  *)

Files == {1, 2}
FileName     == <<"a.wav", "b.mov">>     \* getFullPathName(), in path order
FileStem     == <<"a", "b">>
\* The "index" ffprobe reports for each audio stream of the file, in file
\* order: a.wav holds two audio streams, b.mov a video stream (index 0) and
\* two audio streams.
AudioStreams == << <<0, 1>>, <<1, 2>> >>
ProbeStream  == <<AudioStreams[1][1], AudioStreams[2][1]>>  \* streamIndex of streams[0]
ProbeChannels == <<2, 1>>                \* AudioStreamInfo::channels of streams[0]
ProbeSampleRate == <<44100, 0>>          \* AudioStreamInfo::sampleRate (0: not reported)

\* Mutant of NewLane: every lane of a file gets channelIndex 0.
NewLaneFirstChannel(id, f, ch) ==
    [uuid |-> id, sourceFile |-> f, streamIndex |-> ProbeStream[f],
     channelIndex |-> 0, totalChannels |-> ProbeChannels[f],
     sampleRate |-> ProbeSampleRate[f]]

\* The Lane handleDroppedFile creates for channel ch of streams[0] of file f.
NewLane(id, f, ch) ==
    [uuid |-> id, sourceFile |-> f, streamIndex |-> ProbeStream[f],
     channelIndex |-> ch, totalChannels |-> ProbeChannels[f],
     sampleRate |-> ProbeSampleRate[f]]

----------------------------------------------------------------------------
(* ProjectModel *)

RemoveAt(s, i) == SubSeq(s, 1, i - 1) \o SubSeq(s, i + 1, Len(s))
InsertAt(s, i, x) == SubSeq(s, 1, i - 1) \o <<x>> \o SubSeq(s, i, Len(s))

\* ProjectModel::addLane: push_back.
addLane(ls, lane) == Append(ls, lane)

\* ProjectModel::removeLane(int index), index 0-based.
removeLane(ls, index) ==
    IF index < 0 \/ index >= Len(ls) THEN ls ELSE RemoveAt(ls, index + 1)

\* moveLane with the insertion index lowered only where it would fall past
\* the end of the list after the removal.
moveLaneUnadjusted(ls, fromIndex, toIndex) ==
    LET size == Len(ls) IN
    IF fromIndex < 0 \/ fromIndex >= size THEN ls
    ELSE IF toIndex < 0 \/ toIndex > size THEN ls
    ELSE IF fromIndex = toIndex \/ fromIndex + 1 = toIndex THEN ls
    ELSE LET insertIndex == IF toIndex = size THEN toIndex - 1 ELSE toIndex
             lane == ls[fromIndex + 1]
         IN  InsertAt(RemoveAt(ls, fromIndex + 1), insertIndex + 1, lane)

\* ProjectModel::moveLane(fromIndex, toIndex), indices 0-based.
moveLane(ls, fromIndex, toIndex) ==
    LET size == Len(ls) IN
    IF fromIndex < 0 \/ fromIndex >= size THEN ls
    ELSE IF toIndex < 0 \/ toIndex > size THEN ls
    ELSE IF fromIndex = toIndex \/ fromIndex + 1 = toIndex THEN ls
    ELSE LET insertIndex == IF toIndex > fromIndex THEN toIndex - 1 ELSE toIndex
             lane == ls[fromIndex + 1]
         IN  InsertAt(RemoveAt(ls, fromIndex + 1), insertIndex + 1, lane)

\* The lanes handleDroppedFile's callback appends for file f: one per channel
\* of streams[0], channelIndex 0..channels-1.
RECURSIVE AddChannels(_, _, _, _)
AddChannels(ls, id, f, ch) ==
    IF ch >= ProbeChannels[f] THEN ls
    ELSE AddChannels(addLane(ls, NewLane(id, f, ch)), id + 1, f, ch + 1)

----------------------------------------------------------------------------
(* ExportSettings *)

Codecs      == {"PCM_WAV", "AAC", "VORBIS", "OPUS"}
BitDepths   == {"Bit16", "Bit24", "Bit32Float"}
SampleRates == {"SR44100", "SR48000", "SR96000", "SR192000", "SROriginal"}

\* ExportSettings::getCodecArgs: one string, words separated by " ".
getCodecArgs(st) ==
    CASE st.codec = "PCM_WAV" ->
            (CASE st.bitDepth = "Bit16"      -> <<"pcm_s16le">>
               [] st.bitDepth = "Bit24"      -> <<"pcm_s24le">>
               [] st.bitDepth = "Bit32Float" -> <<"pcm_f32le">>)
      [] st.codec = "AAC"    -> <<"aac", " ", "-b:a", " ", "256k">>
      [] st.codec = "VORBIS" -> <<"libvorbis", " ", "-q:a", " ", "6">>
      [] st.codec = "OPUS"   -> <<"libopus", " ", "-b:a", " ", "128k">>

\* ExportSettings::getSampleRateArgs: empty means do not resample.
getSampleRateArgs(st) ==
    CASE st.sampleRate = "SR44100"    -> <<"44100">>
      [] st.sampleRate = "SR48000"    -> <<"48000">>
      [] st.sampleRate = "SR96000"    -> <<"96000">>
      [] st.sampleRate = "SR192000"   -> <<"192000">>
      [] st.sampleRate = "SROriginal" -> <<>>

\* ExportSettings::getFileExtension.
getFileExtension(st) ==
    CASE st.codec = "PCM_WAV" -> "wav"
      [] st.codec = "AAC"     -> "m4a"
      [] st.codec = "VORBIS"  -> "ogg"
      [] st.codec = "OPUS"    -> "opus"

\* The settings the export dialog is exercised with in SpecExport: a codec
\* whose argument string has several words, and a resampling rate.
SettingsChoices ==
    { [codec |-> "AAC", bitDepth |-> "Bit24", sampleRate |-> "SR48000"] }

----------------------------------------------------------------------------
(* MainComponent::exportMultichannelWav: the argument vector *)

\* key = sourceFile.getFullPathName() + ":" + String(streamIndex)
SourceKey(lane) == <<FileName[lane.sourceFile], ":">> \o Str(lane.streamIndex)

\* std::map iterates its keys in ascending order; paths are ordered as the
\* files are, then by stream index.
KeyBefore(a, b) ==
    \/ a.sourceFile < b.sourceFile
    \/ a.sourceFile = b.sourceFile /\ a.streamIndex < b.streamIndex

FirstUse(ls, i) == \A j \in 1..(i - 1) : SourceKey(ls[j]) # SourceKey(ls[i])

\* sourceToIndex[key of lane i]: inputIndex at the key's first occurrence.
sourceToIndex(ls, i) ==
    LET first == CHOOSE j \in 1..i : SourceKey(ls[j]) = SourceKey(ls[i]) /\ FirstUse(ls, j)
    IN  Cardinality({j \in 1..(first - 1) : FirstUse(ls, j)})

\* sourceUsageCount[key of lane i]
sourceUsageCount(ls, i) == Cardinality({j \in 1..Len(ls) : SourceKey(ls[j]) = SourceKey(ls[i])})

\* The "-i <file>" pairs, one per distinct key, in order of first use.
RECURSIVE InputArgs(_, _)
InputArgs(ls, i) ==
    IF i > Len(ls) THEN <<>>
    ELSE (IF FirstUse(ls, i) THEN << <<"-i">>, <<FileName[ls[i].sourceFile]>> >> ELSE <<>>)
         \o InputArgs(ls, i + 1)

SplitLabel(idx, i) == <<"[s">> \o Str(idx) \o <<"_">> \o Str(i) \o <<"]">>

RECURSIVE SplitLabels(_, _, _)
SplitLabels(idx, i, count) ==
    IF i >= count THEN <<>> ELSE SplitLabel(idx, i) \o SplitLabels(idx, i + 1, count)

SourceLabel(idx) == <<"[">> \o Str(idx) \o <<":a]">>

\* The first-use positions of the keys, in std::map (key) order.
RECURSIVE KeysInMapOrder(_, _)
KeysInMapOrder(ls, todo) ==
    IF todo = {} THEN <<>>
    ELSE LET m == CHOOSE i \in todo : \A j \in todo : j = i \/ KeyBefore(ls[i], ls[j])
         IN  <<m>> \o KeysInMapOrder(ls, todo \ {m})

\* The asplit loop: one filter per key used more than once.
RECURSIVE AsplitFilters(_, _, _)
AsplitFilters(ls, keys, filterComplex) ==
    IF keys = <<>> THEN filterComplex
    ELSE LET i     == Head(keys)
             idx   == sourceToIndex(ls, i)
             count == sourceUsageCount(ls, i)
             asplitFilter == SourceLabel(idx) \o <<"asplit=">> \o Str(count)
                             \o SplitLabels(idx, 0, count)
         IN  AsplitFilters(ls, Tail(keys),
                 IF count > 1
                 THEN (IF filterComplex # <<>> THEN filterComplex \o <<";">> ELSE filterComplex)
                      \o asplitFilter
                 ELSE filterComplex)

\* Mutant of MonoLabel: labels numbered from 1.
MonoLabelFromOne(i) == <<"[m">> \o Str(i + 1) \o <<"]">>

\* monoLabel = "[m" + String(i) + "]"
MonoLabel(i) == <<"[m">> \o Str(i) \o <<"]">>

\* Mutant of splitIdx: every lane takes the first output of its source's split.
splitIdxFirst(ls, i) == 0

\* sourceSplitIndex[key]++ : how many earlier lanes used the same key.
splitIdx(ls, i) == Cardinality({j \in 1..(i - 1) : SourceKey(ls[j]) = SourceKey(ls[i])})

\* Mutant of PanChannel: every lane selects channel 0.
PanChannelZero(lane) == 0

\* The channel a lane's pan filter selects.
PanChannel(lane) == lane.channelIndex

panFilter(ls, i) ==
    LET idx == sourceToIndex(ls, i)
        inputLabel == IF sourceUsageCount(ls, i) > 1
                      THEN SplitLabel(idx, splitIdx(ls, i))
                      ELSE SourceLabel(idx)
    IN  inputLabel \o <<"pan=mono|c0=c">> \o Str(PanChannel(ls[i])) \o MonoLabel(i - 1)

\* The pan loop: lane i (1-based here) yields [m(i-1)].
RECURSIVE PanFilters(_, _, _)
PanFilters(ls, i, filterComplex) ==
    IF i > Len(ls) THEN filterComplex
    ELSE PanFilters(ls, i + 1,
             (IF filterComplex # <<>> THEN filterComplex \o <<";">> ELSE filterComplex)
             \o panFilter(ls, i))

RECURSIVE MonoOutputs(_, _)
MonoOutputs(ls, i) == IF i > Len(ls) THEN <<>> ELSE MonoLabel(i - 1) \o MonoOutputs(ls, i + 1)

MergeFilter(ls) == MonoOutputs(ls, 1) \o <<"amerge=inputs=">> \o Str(Len(ls)) \o <<"[out]">>

FilterComplex(ls) ==
    LET firsts == {i \in 1..Len(ls) : FirstUse(ls, i)}
        split  == AsplitFilters(ls, KeysInMapOrder(ls, firsts), <<>>)
        pans   == PanFilters(ls, 1, split)
    IN  pans \o <<";">> \o MergeFilter(ls)

\* The whole argument vector of exportMultichannelWav.
MultichannelArgs(ls, st, outputFile) ==
    LET sampleRateStr == getSampleRateArgs(st)
        codecParts    == Tokens(getCodecArgs(st), " ")
    IN  << <<"ffmpeg">>, <<"-y">> >>
        \o InputArgs(ls, 1)
        \o << <<"-filter_complex">>, FilterComplex(ls), <<"-map">>, <<"[out]">> >>
        \o (IF sampleRateStr # <<>> THEN << <<"-ar">>, sampleRateStr >> ELSE <<>>)
        \o << <<"-c:a">> >> \o codecParts
        \o << outputFile >>

----------------------------------------------------------------------------
(* MainComponent::exportMonoWavFiles and exportStereoPairs: one argument   *)
(* vector per output file                                                  *)

\* juce::String::paddedLeft(padCharacter, minimumLength)
RECURSIVE paddedLeft(_, _, _)
paddedLeft(s, padCharacter, minimumLength) ==
    IF Len(s) >= minimumLength THEN s
    ELSE paddedLeft(<<padCharacter>> \o s, padCharacter, minimumLength)

\* outputDir.getChildFile(name).getFullPathName()
ChildFile(name) == <<"dir/">> \o name

\* The tail every mono and stereo command shares: the mapped output, the
\* sample rate if one was chosen, the codec words, the output file.
OutputArgs(filterComplex, st, outputFile) ==
    LET sampleRateStr == getSampleRateArgs(st)
        codecParts    == Tokens(getCodecArgs(st), " ")
    IN  << <<"-filter_complex">>, filterComplex, <<"-map">>, <<"[out]">> >>
        \o (IF sampleRateStr # <<>> THEN << <<"-ar">>, sampleRateStr >> ELSE <<>>)
        \o << <<"-c:a">> >> \o codecParts
        \o << outputFile >>

\* The number in a mono file's name: static_cast<int>(i) + 1.
MonoPosition(i) == i + 1

\* Mutant of MonoFileName: the extension is ".wav" whatever the settings.
MonoFileNameWav(ls, i, st) ==
    <<"channel_">> \o paddedLeft(Str(MonoPosition(i)), "0", 2) \o <<"_">>
    \o <<FileStem[ls[i + 1].sourceFile]>> \o <<".">> \o <<"wav">>

\* "channel_" + String(i + 1).paddedLeft('0', 2) + "_" + stem + "." + extension
MonoFileName(ls, i, st) ==
    <<"channel_">> \o paddedLeft(Str(MonoPosition(i)), "0", 2) \o <<"_">>
    \o <<FileStem[ls[i + 1].sourceFile]>> \o <<".">> \o <<getFileExtension(st)>>

\* The argument vector of the i-th (0-based) iteration of exportMonoWavFiles.
MonoArgs(ls, i, st) ==
    LET lane == ls[i + 1]
        filterComplex == <<"[", "0", ":a:">> \o Str(lane.streamIndex) \o <<"]">>
                         \o <<"pan=mono|c0=c">> \o Str(lane.channelIndex) \o <<"[out]">>
    IN  << <<"ffmpeg">>, <<"-v">>, <<"error">>, <<"-y">>,
           <<"-i">>, <<FileName[lane.sourceFile]>> >>
        \o OutputArgs(filterComplex, st, ChildFile(MonoFileName(ls, i, st)))

\* exportMonoWavFiles: the commands it launches, in loop order.
MonoCommands(ls, st) == [k \in 1..Len(ls) |-> MonoArgs(ls, k - 1, st)]

\* Mutant of numPairs: the odd final lane is left out.
numPairsDropOdd(ls) == Len(ls) \div 2

\* numPairs = (lanes.size() + 1) / 2
numPairs(ls) == (Len(ls) + 1) \div 2

\* "stereo_" + String(pair + 1).paddedLeft('0', 2) + "." + extension
StereoFileName(pair, st) ==
    <<"stereo_">> \o paddedLeft(Str(pair + 1), "0", 2) \o <<".">> \o <<getFileExtension(st)>>

\* Mutant of differentSource: only the files are compared.
differentFile(leftLane, rightLane) ==
    rightLane.sourceFile # leftLane.sourceFile

\* rightLane->sourceFile != leftLane->sourceFile ||
\* rightLane->streamIndex != leftLane->streamIndex
differentSource(leftLane, rightLane) ==
    \/ rightLane.sourceFile # leftLane.sourceFile
    \/ rightLane.streamIndex # leftLane.streamIndex

\* The argument vector of one iteration (pair, 0-based) of exportStereoPairs.
StereoArgs(ls, pair, st) ==
    LET leftIdx   == pair * 2
        rightIdx  == pair * 2 + 1
        leftLane  == ls[leftIdx + 1]
        hasRight  == rightIdx < Len(ls)
        rightLane == ls[rightIdx + 1]
        separateInputs == hasRight /\ differentSource(leftLane, rightLane)
        rightInput == IF separateInputs THEN 1 ELSE 0
        left  == <<"[", "0", ":a:">> \o Str(leftLane.streamIndex) \o <<"]">>
                 \o <<"pan=mono|c0=c">> \o Str(leftLane.channelIndex) \o <<"[left]", ";">>
        right == IF hasRight
                 THEN <<"[">> \o Str(rightInput) \o <<":a:">> \o Str(rightLane.streamIndex)
                      \o <<"]">>
                      \o <<"pan=mono|c0=c">> \o Str(rightLane.channelIndex) \o <<"[right]", ";">>
                 ELSE <<"[", "0", ":a:">> \o Str(leftLane.streamIndex) \o <<"]">>
                      \o <<"pan=mono|c0=c">> \o Str(leftLane.channelIndex) \o <<"[right]", ";">>
        filterComplex == left \o right
                         \o <<"[left]", "[right]", "amerge=inputs=", "2", "[out]">>
    IN  << <<"ffmpeg">>, <<"-v">>, <<"error">>, <<"-y">>,
           <<"-i">>, <<FileName[leftLane.sourceFile]>> >>
        \o (IF separateInputs THEN << <<"-i">>, <<FileName[rightLane.sourceFile]>> >> ELSE <<>>)
        \o OutputArgs(filterComplex, st, ChildFile(StereoFileName(pair, st)))

\* exportStereoPairs: the commands it launches, in loop order.
StereoCommands(ls, st) == [k \in 1..numPairs(ls) |-> StereoArgs(ls, k - 1, st)]

NoBatch == [mode |-> "none", lanes |-> <<>>, commands |-> <<>>]

----------------------------------------------------------------------------
(* The transcode threads of an export and their callbacks *)

\* The thread Thread::launch was given for output file index (0-based) of
\* total, before it has run: mode is the export function that launched it.
LaunchedRun(mode, index, total, args) ==
    [mode |-> mode, index |-> index, total |-> total, args |-> args,
     pc |-> "launched", starts |-> 0, started |-> FALSE, exitCode |-> 0,
     posted |-> FALSE, reports |-> <<>>, turn |-> 0]

\* The threads one export call launches: one per built command.
LaunchedRuns(mode, commands) ==
    [k \in 1..Len(commands) |-> LaunchedRun(mode, k - 1, Len(commands), commands[k])]

\* outputFile.getFullPathName(): the last argument of the command.
RunOutputFile(run) == run.args[Len(run.args)]

\* outputFile.getFileName(): the path without its directory.
getFileName(path) == Tail(path)

\* The else branch of "if (process.start(...))": only exportMultichannelWav
\* has one, and it posts a callback.
postsOnStartFailure(mode) == mode = "multi"

\* The updateStatus calls the posted callback of a thread makes, in order.
CallbackReports(run) ==
    CASE run.mode = "multi" ->
            IF ~run.started THEN << <<"Failed to start ffmpeg process">> >>
            ELSE IF run.exitCode = 0
                 THEN << <<"Exported: ">> \o RunOutputFile(run) >>
                 ELSE << <<"Export failed (exit code ">> \o Str(run.exitCode) \o <<")">> >>
      [] run.mode = "mono" ->
            IF run.exitCode = 0
            THEN IF run.index = run.total - 1
                 THEN << <<"Exported ">> \o Str(run.total) \o <<" mono files">> >>
                 ELSE <<>>
            ELSE << <<"Export failed for ">> \o getFileName(RunOutputFile(run)) >>
      [] run.mode = "stereo" ->
            IF run.exitCode = 0
            THEN IF run.index = run.total - 1
                 THEN << <<"Exported ">> \o Str(run.total) \o <<" stereo pairs">> >>
                 ELSE <<>>
            ELSE << <<"Export failed for ">> \o getFileName(RunOutputFile(run)) >>

\* The thread calls process.start once; when it fails the thread posts the
\* failure callback (multichannel) or ends (mono, stereo).
RunStart(k, ok) ==
    /\ k \in 1..Len(runs)
    /\ runs[k].pc = "launched"
    /\ LET post == ~ok /\ postsOnStartFailure(runs[k].mode)
       IN  /\ runs' = [runs EXCEPT ![k].starts = @ + 1,
                                   ![k].started = ok,
                                   ![k].pc = IF ok THEN "running"
                                             ELSE IF post THEN "posted" ELSE "ended",
                                   ![k].posted = post]
           /\ exportQueue' = IF post THEN Append(exportQueue, k) ELSE exportQueue
    /\ UNCHANGED <<lastExport, prevExport, lastBatch, probeVars, reloadVars, listenVars, mixVars, modelVars, playerVars,
                   extractVars>>

\* readAllProcessOutput, waitForProcessToFinish, getExitCode, then callAsync.
RunExit(k, code) ==
    /\ k \in 1..Len(runs)
    /\ runs[k].pc = "running"
    /\ runs' = [runs EXCEPT ![k].exitCode = code, ![k].pc = "posted", ![k].posted = TRUE]
    /\ exportQueue' = Append(exportQueue, k)
    /\ UNCHANGED <<lastExport, prevExport, lastBatch, probeVars, reloadVars, listenVars, mixVars, modelVars, playerVars,
                   extractVars>>

\* The callbacks of the latest export the message thread has run so far.
CallbacksRun == { i \in 1..Len(runs) : runs[i].turn > 0 }

\* The message thread runs the oldest posted export callback: turn is its
\* place in the order the callbacks of this export ran.
ExportCallback ==
    /\ exportQueue # <<>>
    /\ LET k == Head(exportQueue)
       IN  runs' = [runs EXCEPT ![k].reports = CallbackReports(runs[k]), ![k].pc = "ended",
                                ![k].turn = Cardinality(CallbacksRun) + 1]
    /\ exportQueue' = Tail(exportQueue)
    /\ UNCHANGED <<lastExport, prevExport, lastBatch, probeVars, reloadVars, listenVars, mixVars, modelVars, playerVars,
                   extractVars>>

\* No thread of the latest export is still to run and no callback is waiting.
RunsEnded == exportQueue = <<>> /\ \A k \in 1..Len(runs) : runs[k].pc = "ended"

----------------------------------------------------------------------------
(* FFProbe::getAudioStreams and parseJsonOutput *)

\* A stream object of the payload: the properties parseJsonOutput reads. An
\* element of the streams array that is not an object has isObject FALSE.
StreamEntries ==
    { [isObject |-> FALSE, index |-> 0, channels |-> 0, sample_rate |-> 0] }
    \cup { [isObject |-> TRUE, index |-> i, channels |-> c, sample_rate |-> 44100] :
             i \in 0..1, c \in 1..2 }

\* What the probe process wrote, as juce::JSON::parse sees it: nothing,
\* text that is not JSON, JSON that is not an object, or an object whose
\* "streams" property is absent, not an array, or an array.
Payload(kind, streams, entries) == [kind |-> kind, streams |-> streams, entries |-> entries]

Payloads ==
    { Payload(k, "absent", <<>>) : k \in {"empty", "garbage", "scalar", "object"} }
    \cup { Payload("object", "notarray", <<>>) }
    \cup { Payload("object", "array", es) :
             es \in UNION { [1..n -> StreamEntries] : n \in 0..MaxStreams } }

ProbeFailure(errorMessage) ==
    [success |-> FALSE, errorMessage |-> errorMessage, streams |-> <<>>]

\* AudioStreamInfo of one stream object.
StreamInfo(entry) ==
    [streamIndex |-> entry.index, channels |-> entry.channels, sampleRate |-> entry.sample_rate]

RECURSIVE StreamInfos(_)
StreamInfos(entries) ==
    IF entries = <<>> THEN <<>>
    ELSE (IF Head(entries).isObject THEN <<StreamInfo(Head(entries))>> ELSE <<>>)
         \o StreamInfos(Tail(entries))

\* Mutant of parseJsonOutput: a payload without a streams array is a failure.
parseJsonOutputStrict(payload) ==
    IF payload.kind \in {"empty", "garbage"}
    THEN ProbeFailure(<<"Failed to parse ffprobe JSON output">>)
    ELSE IF payload.kind # "object"
    THEN ProbeFailure(<<"Invalid JSON structure from ffprobe">>)
    ELSE IF payload.streams # "array"
    THEN ProbeFailure(<<>>)
    ELSE [success |-> TRUE, errorMessage |-> <<>>, streams |-> StreamInfos(payload.entries)]

\* FFProbe::parseJsonOutput
parseJsonOutput(payload) ==
    IF payload.kind \in {"empty", "garbage"}
    THEN ProbeFailure(<<"Failed to parse ffprobe JSON output">>)
    ELSE IF payload.kind # "object"
    THEN ProbeFailure(<<"Invalid JSON structure from ffprobe">>)
    ELSE IF payload.streams # "array"
    THEN [success |-> TRUE, errorMessage |-> <<>>, streams |-> <<>>]
    ELSE [success |-> TRUE, errorMessage |-> <<>>, streams |-> StreamInfos(payload.entries)]

\* Mutant of preconditionsFail: the file's existence is not tested.
preconditionsFailToolOnly(toolAvailable, fileExists) == ~toolAvailable

\* The two tests in front of the command: the tool, then the file.
preconditionsFail(toolAvailable, fileExists) == ~toolAvailable \/ ~fileExists

\* FFProbe::getAudioStreams(file): whether process.start was called, and the
\* ProbeResult. started is what process.start returns, exitCode and payload
\* what the process ends with.
getAudioStreams(f, toolAvailable, fileExists, started, exitCode, payload) ==
    IF preconditionsFail(toolAvailable, fileExists)
    THEN [spawned |-> FALSE,
          result  |-> IF ~toolAvailable
                      THEN ProbeFailure(<<"ffprobe not found. Please install FFmpeg.">>)
                      ELSE ProbeFailure(<<"File not found: ", FileName[f]>>)]
    ELSE IF ~started
    THEN [spawned |-> TRUE, result |-> ProbeFailure(<<"Failed to start ffprobe process">>)]
    ELSE IF exitCode # 0
    THEN [spawned |-> TRUE,
          result  |-> ProbeFailure(<<"ffprobe returned error code ">> \o Str(exitCode)
                                   \o (IF payload.kind # "empty" THEN <<": ", "output">> ELSE <<>>))]
    ELSE [spawned |-> TRUE, result |-> parseJsonOutput(payload)]

NoResult == [success |-> FALSE, errorMessage |-> <<>>, streams |-> <<>>]

\* No probe has been launched.
NoProbe ==
    [pc |-> "idle", file |-> 0, inputs |-> <<>>, spawned |-> FALSE, result |-> NoResult,
     shown |-> <<>>]

NoExport == [lanes |-> <<>>, args |-> <<>>]

\* No preview decode is followed.
NoMix == [pc |-> "none", infos |-> <<>>, level |-> 0, frames |-> 0,
          temp |-> <<>>, mixed |-> <<>>, stereo |-> <<>>]

\* audioReloadPending, whether the debounce timer is running, and the number
\* of changes of the stack MainComponent was notified of.
NoReload == [pending |-> FALSE, timer |-> FALSE, changes |-> 0]

\* Mutant of scheduleAudioReload: the timer is started, the flag is not set.
scheduleWithoutFlag(r) == [r EXCEPT !.timer = TRUE]

\* MainComponent::scheduleAudioReload
scheduleAudioReload(r) == [r EXCEPT !.pending = TRUE, !.timer = TRUE]

InitModel == lanes = <<>> /\ nextUuid = 0

InitExportState ==
    /\ lastExport = NoExport /\ prevExport = NoExport /\ lastBatch = NoBatch
    /\ probe = NoProbe
    /\ runs = <<>> /\ exportQueue = <<>>
    /\ reload = NoReload
    /\ listeners = <<>> /\ calls = <<>>

InitExportVars == InitExportState /\ mix = NoMix

----------------------------------------------------------------------------
(* AudioPlayer *)

DefaultSampleRate == 48000

EmptyBuffer == [gen |-> 0, numSamples |-> 0]

Gens == 1..MaxGen

IdleThread == [pc |-> "idle", infos |-> <<>>, floats |-> 0]

\* A pull that left the output cleared and notified no position; a pull that
\* copied frames notifies the read position it reached.
NoPull == [asked |-> 0, frames |-> 0, position |-> -1]

InitPlayer ==
    /\ loadState = "Empty"
    /\ loadGeneration = 0
    /\ playing = FALSE
    /\ shuttingDown = FALSE
    /\ audioBuffer = EmptyBuffer
    /\ currentSampleRate = DefaultSampleRate
    /\ readPosition = 0
    /\ decodeThreads = [g \in Gens |-> IdleThread]
    /\ messageQueue = <<>>
    /\ controlPc = "idle"
    /\ audioPc = "idle"
    /\ lastPull = NoPull
    /\ startedCount = 0
    /\ stoppedCount = 0

\* Mutant of stop: the event is fired whether or not the player was playing.
stopUnguarded(p, n) == <<FALSE, n + 1>>

\* AudioPlayer::stop, as the values it leaves in <<playing, stoppedCount>>.
stop(p, n) == IF p THEN <<FALSE, n + 1>> ELSE <<p, n>>

\* DecodeInfo, the fields loadLanes copies from a lane.
DecodeInfo(lane) ==
    [sourceFile |-> lane.sourceFile, streamIndex |-> lane.streamIndex,
     channelIndex |-> lane.channelIndex, totalChannels |-> lane.totalChannels,
     sampleRate |-> lane.sampleRate]

\* The lane lists loadLanes is called with (reloadAudioNow passes the stack).
PlayerLaneLists ==
    { <<>>,
      <<NewLane(1, 1, 0), NewLane(2, 1, 1)>>,
      <<NewLane(3, 2, 0)>> }

\* Mutant of loadedState: a non-empty list leaves the load state alone.
loadedStateKept(ls) == IF ls = <<>> THEN "Empty" ELSE loadState

\* The state loadLanes passes to setLoadState.
loadedState(ls) == IF ls = <<>> THEN "Empty" ELSE "Loading"

\* AudioPlayer::loadLanes, on the player's variables.
loadLanes(ls) ==
    /\ controlPc = "idle"
    /\ ~shuttingDown
    /\ loadGeneration < MaxGen
    /\ LET st == stop(playing, stoppedCount)
           newGeneration == loadGeneration + 1
       IN  /\ playing' = st[1]
           /\ stoppedCount' = st[2]
           /\ loadGeneration' = newGeneration
           /\ loadState' = loadedState(ls)
           /\ IF ls = <<>>
              THEN /\ audioBuffer' = EmptyBuffer
                   /\ readPosition' = 0
                   /\ UNCHANGED decodeThreads
              ELSE /\ decodeThreads' =
                          [decodeThreads EXCEPT ![newGeneration] =
                              [pc |-> "start",
                               infos |-> [i \in 1..Len(ls) |-> DecodeInfo(ls[i])],
                               floats |-> 0]]
                   /\ UNCHANGED <<audioBuffer, readPosition>>
    /\ UNCHANGED <<shuttingDown, currentSampleRate, messageQueue, controlPc, audioPc, lastPull,
                   startedCount>>

\* AudioPlayer::loadLanes
LoadLanes(ls) == loadLanes(ls) /\ UNCHANGED <<modelVars, exportVars, extractVars>>

\* AudioPlayer::shutdown
Shutdown ==
    /\ controlPc = "idle"
    /\ ~shuttingDown
    /\ loadGeneration < MaxGen
    /\ LET st == stop(playing, stoppedCount)
       IN  playing' = st[1] /\ stoppedCount' = st[2]
    /\ loadGeneration' = loadGeneration + 1
    /\ UNCHANGED <<loadState, shuttingDown, audioBuffer, currentSampleRate, readPosition,
                   decodeThreads, messageQueue, controlPc, audioPc, lastPull, startedCount,
                   modelVars, exportVars, extractVars>>

\* AudioPlayer::~AudioPlayer: the flag, the generation, then shutdown().
Destroy ==
    /\ controlPc = "idle"
    /\ ~shuttingDown
    /\ loadGeneration + 1 < MaxGen
    /\ shuttingDown' = TRUE
    /\ LET st == stop(playing, stoppedCount)
       IN  playing' = st[1] /\ stoppedCount' = st[2]
    /\ loadGeneration' = loadGeneration + 2
    /\ UNCHANGED <<loadState, audioBuffer, currentSampleRate, readPosition,
                   decodeThreads, messageQueue, controlPc, audioPc, lastPull, startedCount,
                   modelVars, exportVars, extractVars>>

\* The checkpoint of the decode thread: superseded, or shutting down.
Cancelled(g) == shuttingDown \/ loadGeneration # g

Post(q, m) == Append(q, m)

SetThread(g, pc, floats) ==
    decodeThreads' = [decodeThreads EXCEPT ![g].pc = pc, ![g].floats = floats]

decodeUnchanged ==
    UNCHANGED <<loadState, loadGeneration, playing, shuttingDown, audioBuffer,
                currentSampleRate, readPosition, controlPc, audioPc, lastPull, startedCount,
                stoppedCount, modelVars, exportVars, extractVars>>

\* Mutant of onDecodeError: nothing is posted.
onDecodeErrorDropped(q, g) == q

\* onDecodeError, called on the decode thread: posts unless shutting down.
onDecodeError(q, g) == IF shuttingDown THEN q ELSE Post(q, [kind |-> "error", gen |-> g])

\* Decode thread up to process.start: the first checkpoint, then the
\* transcode tool starts, or does not.
DecodeStart(g, started) ==
    /\ decodeThreads[g].pc = "start"
    /\ IF Cancelled(g)
       THEN SetThread(g, "done", 0) /\ UNCHANGED messageQueue
       ELSE IF started
       THEN SetThread(g, "read", 0) /\ UNCHANGED messageQueue
       ELSE /\ Len(messageQueue) < MaxQueue
            /\ SetThread(g, "done", 0)
            /\ messageQueue' = (IF ~shuttingDown THEN onDecodeError(messageQueue, g)
                                ELSE messageQueue)
    /\ decodeUnchanged

\* The read loops: cancelled at a checkpoint, or the process ends having
\* written n floats.
DecodeRead(g, n) ==
    /\ decodeThreads[g].pc = "read"
    /\ SetThread(g, IF Cancelled(g) THEN "done" ELSE "final", IF Cancelled(g) THEN 0 ELSE n)
    /\ UNCHANGED messageQueue
    /\ decodeUnchanged

\* After waitForProcessToFinish: the checkpoint, then the zero-bytes test.
DecodeFinal(g) ==
    /\ decodeThreads[g].pc = "final"
    /\ IF Cancelled(g)
       THEN SetThread(g, "done", 0) /\ UNCHANGED messageQueue
       ELSE IF decodeThreads[g].floats = 0
       THEN /\ Len(messageQueue) < MaxQueue
            /\ SetThread(g, "done", 0)
            /\ messageQueue' = (IF ~shuttingDown THEN onDecodeError(messageQueue, g)
                                ELSE messageQueue)
       ELSE SetThread(g, "mix", decodeThreads[g].floats) /\ UNCHANGED messageQueue
    /\ decodeUnchanged

\* De-interleave, mix and normalise, with the checkpoints in the loops and
\* the final one before onDecodeComplete.
DecodeMix(g) ==
    /\ decodeThreads[g].pc = "mix"
    /\ SetThread(g, IF Cancelled(g) THEN "done" ELSE "post", decodeThreads[g].floats)
    /\ UNCHANGED messageQueue
    /\ decodeUnchanged

\* numSamples = bytes / (sizeof(float) * numSourceChannels)
numSamples(t) == t.floats \div t.infos[1].totalChannels

\* sampleRate = firstInfo.sampleRate > 0 ? firstInfo.sampleRate : 48000
decodeSampleRate(t) ==
    IF t.infos[1].sampleRate > 0 THEN t.infos[1].sampleRate ELSE DefaultSampleRate

\* onDecodeComplete, called on the decode thread: posts unless shutting down.
DecodePost(g) ==
    /\ decodeThreads[g].pc = "post"
    /\ Len(messageQueue) < MaxQueue
    /\ SetThread(g, "done", 0)
    /\ messageQueue' =
          IF shuttingDown THEN messageQueue
          ELSE Post(messageQueue,
                    [kind |-> "complete", gen |-> g,
                     buf |-> [gen |-> g, numSamples |-> numSamples(decodeThreads[g])],
                     sr |-> decodeSampleRate(decodeThreads[g])])
    /\ decodeUnchanged

\* Mutant of StaleResult: the posted callback applies whatever its generation.
StaleResultIgnored(gen) == shuttingDown

\* The test the posted callbacks make on the message thread.
StaleResult(gen) == shuttingDown \/ loadGeneration # gen

\* The message thread runs the callback at the head of its queue.
RunCallback ==
    /\ controlPc = "idle"
    /\ messageQueue # <<>>
    /\ LET m == Head(messageQueue) IN
       /\ messageQueue' = Tail(messageQueue)
       /\ CASE m.kind = "complete" ->
                 IF StaleResult(m.gen)
                 THEN UNCHANGED <<audioBuffer, currentSampleRate, readPosition, loadState,
                                  playing, stoppedCount>>
                 ELSE /\ audioBuffer' = m.buf
                      /\ currentSampleRate' = m.sr
                      /\ readPosition' = 0
                      /\ loadState' = "Ready"
                      /\ UNCHANGED <<playing, stoppedCount>>
            [] m.kind = "error" ->
                 /\ loadState' = IF ~StaleResult(m.gen) THEN "Error" ELSE loadState
                 /\ UNCHANGED <<audioBuffer, currentSampleRate, readPosition, playing,
                                stoppedCount>>
            [] m.kind = "stop" ->
                 /\ LET st == stop(playing, stoppedCount)
                    IN  playing' = st[1] /\ stoppedCount' = st[2]
                 /\ UNCHANGED <<audioBuffer, currentSampleRate, readPosition, loadState>>
    /\ UNCHANGED <<loadGeneration, shuttingDown, decodeThreads, controlPc, audioPc, lastPull,
                   startedCount, modelVars, exportVars, extractVars>>

\* Mutant of playRefused: the empty-buffer test is left out.
playRefusedByStateOnly == loadState # "Ready"

\* The two early returns of play().
playRefused == loadState # "Ready" \/ audioBuffer.numSamples = 0

\* AudioPlayer::play up to the end of its locked block, while fewer than
\* limit playbackStarted events were counted.
PlayEnterUpTo(limit) ==
    /\ controlPc = "idle"
    /\ ~shuttingDown
    /\ startedCount < limit
    /\ IF playRefused
       THEN UNCHANGED <<readPosition, controlPc>>
       ELSE readPosition' = 0 /\ controlPc' = "play"
    /\ UNCHANGED <<loadState, loadGeneration, playing, shuttingDown, audioBuffer,
                   currentSampleRate, decodeThreads, messageQueue, audioPc, lastPull,
                   startedCount, stoppedCount, modelVars, exportVars, extractVars>>

PlayEnter == PlayEnterUpTo(MaxStarts)

\* AudioPlayer::play, the rest: playing = true and playbackStarted.
PlayFinish ==
    /\ controlPc = "play"
    /\ controlPc' = "idle"
    /\ playing' = TRUE
    /\ startedCount' = startedCount + 1
    /\ UNCHANGED <<loadState, loadGeneration, shuttingDown, audioBuffer, currentSampleRate,
                   readPosition, decodeThreads, messageQueue, audioPc, lastPull, stoppedCount,
                   modelVars, exportVars, extractVars>>

\* AudioPlayer::stop called from the stop button.
Stop ==
    /\ controlPc = "idle"
    /\ ~shuttingDown
    /\ playing
    /\ LET st == stop(playing, stoppedCount)
       IN  playing' = st[1] /\ stoppedCount' = st[2]
    /\ UNCHANGED <<loadState, loadGeneration, shuttingDown, audioBuffer, currentSampleRate,
                   readPosition, decodeThreads, messageQueue, controlPc, audioPc, lastPull,
                   startedCount, modelVars, exportVars, extractVars>>

\* getNextAudioBlock before it takes the lock: the output is cleared, then
\* the playing / Ready test.
AudioBlockEnter ==
    /\ audioPc = "idle"
    /\ IF ~playing \/ loadState # "Ready"
       THEN lastPull' = NoPull /\ UNCHANGED audioPc
       ELSE audioPc' = "locked" /\ UNCHANGED lastPull
    /\ UNCHANGED <<loadState, loadGeneration, playing, shuttingDown, audioBuffer,
                   currentSampleRate, readPosition, decodeThreads, messageQueue,
                   controlPc, startedCount, stoppedCount, modelVars, exportVars,
                   extractVars>>

\* Mutant of samplesToRead: the request is not limited to what is left.
samplesToReadUnclamped(requested, availableSamples) == requested

\* std::min(numSamples, availableSamples)
samplesToRead(requested, availableSamples) ==
    IF requested < availableSamples THEN requested ELSE availableSamples

\* getNextAudioBlock under the lock, asked for n frames.
AudioBlockLocked(n) ==
    /\ audioPc = "locked"
    /\ audioPc' = "idle"
    /\ LET availableSamples == audioBuffer.numSamples - readPosition
           toRead == samplesToRead(n, availableSamples)
       IN  IF audioBuffer.numSamples = 0
           THEN /\ lastPull' = NoPull
                /\ UNCHANGED <<readPosition, messageQueue>>
           ELSE IF toRead <= 0
           THEN /\ Len(messageQueue) < MaxQueue
                /\ messageQueue' = Post(messageQueue, [kind |-> "stop", gen |-> 0])
                /\ lastPull' = NoPull
                /\ UNCHANGED readPosition
           ELSE /\ readPosition' = readPosition + toRead
                /\ lastPull' = [asked |-> n, frames |-> toRead,
                                position |-> readPosition + toRead]
                /\ UNCHANGED messageQueue
    /\ UNCHANGED <<loadState, loadGeneration, playing, shuttingDown, audioBuffer,
                   currentSampleRate, decodeThreads, controlPc, startedCount,
                   stoppedCount, modelVars, exportVars, extractVars>>

NextPlayer ==
    \/ \E ls \in PlayerLaneLists : LoadLanes(ls)
    \/ Shutdown
    \/ Destroy
    \/ \E g \in Gens, started \in BOOLEAN : DecodeStart(g, started)
    \/ \E g \in Gens, n \in 0..MaxFloats : DecodeRead(g, n)
    \/ \E g \in Gens : DecodeFinal(g)
    \/ \E g \in Gens : DecodeMix(g)
    \/ \E g \in Gens : DecodePost(g)
    \/ RunCallback
    \/ PlayEnter
    \/ PlayFinish
    \/ Stop
    \/ AudioBlockEnter
    \/ \E n \in 1..MaxFloats : AudioBlockLocked(n)


----------------------------------------------------------------------------
(* WaveformExtractor *)

kDefaultEnvelopePoints == 4000

Uuids == 1..MaxUuids

JobIds == 1..(MaxUuids + MaxJobs)

Min(S) == CHOOSE x \in S : \A y \in S : x <= y

Max(S) == CHOOSE x \in S : \A y \in S : x >= y

\* WaveformEnvelope as a Lane is constructed with it.
EmptyEnvelope == [minValues |-> <<>>, maxValues |-> <<>>, numPoints |-> 0, isReady |-> FALSE]

\* The decoder's output: its size in bytes and which samples it holds.
NoData == [size |-> 0, pattern |-> 1]

\* samples[idx] of a decode, a float stood for by an integer. Pattern 2 holds
\* no negative sample.
Sample(pattern, idx) == ((idx * pattern) % 5) - 2 * (pattern % 2)

\* std::max<size_t>(1, numSamplesTotal / numPoints)
samplesPerPoint(numSamplesTotal) ==
    Max({1, numSamplesTotal \div kDefaultEnvelopePoints})

\* Mutant of ExtremaCandidates: the extrema are those of the samples alone.
ExtremaOfSamplesOnly(S) == IF S = {} THEN {0} ELSE S

\* minVal = maxVal = 0.0f, then std::min / std::max with every sample of the
\* bucket: the values the bucket's extrema are taken over.
ExtremaCandidates(S) == {0} \cup S

\* WaveformExtractor::processAudioData: the envelope it leaves in the lane.
processAudioData(envelope, channelIndex, totalChannels, rawData) ==
    LET numFloats == rawData.size \div 4
        numSamplesTotal == numFloats \div totalChannels
    IN  IF numSamplesTotal = 0 THEN envelope
        ELSE
        LET spp == samplesPerPoint(numSamplesTotal)
            numPoints == (numSamplesTotal + spp - 1) \div spp
            startSample(point) == point * spp
            endSample(point) == Min({startSample(point) + spp, numSamplesTotal})
            seen(point) ==
                ExtremaCandidates(
                    { Sample(rawData.pattern, s * totalChannels + channelIndex) :
                        s \in { t \in startSample(point)..(endSample(point) - 1) :
                                  t * totalChannels + channelIndex < numFloats } })
        IN  [minValues |-> [p \in 1..numPoints |-> Min(seen(p - 1))],
             maxValues |-> [p \in 1..numPoints |-> Max(seen(p - 1))],
             numPoints |-> numPoints,
             isReady   |-> TRUE]

\* processAudioData as the stores it makes to lane->waveform, in program
\* order: clear and resize of the two vectors, numPoints, the two elements of
\* each point, isReady. No store when numSamplesTotal is 0.
EnvelopeStores(channelIndex, totalChannels, rawData) ==
    LET final == processAudioData(EmptyEnvelope, channelIndex, totalChannels, rawData)
        n     == final.numPoints
        St(loc, kind, idx, val) == [loc |-> loc, kind |-> kind, idx |-> idx, val |-> val]
        pointStores == [k \in 1..(2 * n) |->
                           IF k % 2 = 1
                           THEN St("minValues", "elem", (k + 1) \div 2, final.minValues[(k + 1) \div 2])
                           ELSE St("maxValues", "elem", k \div 2, final.maxValues[k \div 2])]
    IN  IF ~final.isReady THEN <<>>
        ELSE << St("minValues", "clear", 0, 0), St("maxValues", "clear", 0, 0),
                St("minValues", "resize", 0, n), St("maxValues", "resize", 0, n),
                St("numPoints", "set", 0, n) >>
             \o pointStores
             \o << St("isReady", "set", 0, 1) >>

\* std::vector clear, resize(n, 0.0f) and operator[] on a vector v.
VectorStore(v, st) ==
    CASE st.kind = "clear"  -> <<>>
      [] st.kind = "resize" -> [p \in 1..st.val |-> IF p <= Len(v) THEN v[p] ELSE 0]
      [] st.kind = "elem"   -> [v EXCEPT ![st.idx] = st.val]

\* The envelope once the store st has reached memory.
StoreApplied(envelope, st) ==
    CASE st.loc = "minValues" -> [envelope EXCEPT !.minValues = VectorStore(@, st)]
      [] st.loc = "maxValues" -> [envelope EXCEPT !.maxValues = VectorStore(@, st)]
      [] st.loc = "numPoints" -> [envelope EXCEPT !.numPoints = st.val]
      [] st.loc = "isReady"   -> [envelope EXCEPT !.isReady = TRUE]

\* The extraction thread inside processAudioData: the stores of the call, how
\* many of them the thread has executed, and those not yet in memory.
NoWriter == [lane |-> 0, stores |-> <<>>, issued |-> 0, pending |-> <<>>]

\* An ExtractionJob and the position of the thread launched for it.
NoJob ==
    [pc |-> "none", lane |-> 0, cancelled |-> FALSE, process |-> FALSE, freed |-> FALSE,
     rawData |-> NoData, wrote |-> FALSE, fired |-> 0, noTool |-> FALSE]

NewJob(u) == [NoJob EXCEPT !.pc = "start", !.lane = u]

\* The thread launched for job j has not reached the end of runExtraction.
Running(j) == jobObjs[j].pc \in {"start", "read", "check", "process", "callback", "invoke"}

InitExtractor ==
    /\ jobs = [u \in Uuids |-> 0]
    /\ jobObjs = [j \in JobIds |-> NoJob]
    /\ nextJob = 0
    /\ waveform = [u \in Uuids |-> EmptyEnvelope]
    /\ waveformQueue = <<>>
    /\ staleAccess = {}
    /\ cancelAllSeen = {}
    /\ writer = NoWriter

Alive(u) == \E i \in 1..Len(lanes) : lanes[i].uuid = u

LaneOf(u) == lanes[CHOOSE i \in 1..Len(lanes) : lanes[i].uuid = u]

\* <<channelIndex, totalChannels>> of the lanes handleDroppedFile creates.
LaneShapes ==
    UNION { { <<ch, ProbeChannels[f]>> : ch \in 0..(ProbeChannels[f] - 1) } : f \in Files }

\* What a thread reads through its Lane pointer: the lane's fields, or, the
\* Lane having been destroyed, whatever the memory holds.
ReadsLane(u, shape) ==
    IF Alive(u)
    THEN shape = <<LaneOf(u).channelIndex, LaneOf(u).totalChannels>>
    ELSE shape \in LaneShapes

\* What a thread reads in job->cancelled: the flag, or, the job having been
\* destroyed, whatever the memory holds.
ReadsCancelled(j, c) == jobObjs[j].freed \/ c = jobObjs[j].cancelled

\* cancelExtraction on the registry: the lane's job, if any, is flagged and
\* its process killed.
cancelExtraction(objs, u) ==
    IF jobs[u] # 0 THEN [objs EXCEPT ![jobs[u]].cancelled = TRUE] ELSE objs

\* The job object the registry entry of u owns is destroyed.
destroyJob(objs, u) ==
    IF jobs[u] # 0 THEN [objs EXCEPT ![jobs[u]].freed = TRUE] ELSE objs

\* WaveformExtractor::extractWaveform for a lane already in the stack.
ExtractWaveform(u) ==
    /\ Alive(u)
    /\ nextJob < MaxJobs
    /\ LET j == nextJob + 1 IN
       /\ jobObjs' = [destroyJob(cancelExtraction(jobObjs, u), u) EXCEPT ![j] = NewJob(u)]
       /\ jobs' = [jobs EXCEPT ![u] = j]
       /\ nextJob' = j
    /\ UNCHANGED <<waveform, waveformQueue, staleAccess, cancelAllSeen, paintVars,
                   modelVars, exportVars, playerVars>>

\* WaveformExtractor::cancelExtraction
CancelExtraction(u) ==
    /\ Alive(u)
    /\ jobs[u] # 0
    /\ ~jobObjs[jobs[u]].cancelled
    /\ jobObjs' = cancelExtraction(jobObjs, u)
    /\ UNCHANGED <<jobs, nextJob, waveform, waveformQueue, staleAccess, cancelAllSeen, paintVars,
                   modelVars, exportVars, playerVars>>

\* WaveformExtractor::cancelAll
CancelAll ==
    /\ \/ \E u \in Uuids : jobs[u] # 0 /\ ~jobObjs[jobs[u]].cancelled
       \/ \E j \in JobIds : Running(j) /\ j \notin cancelAllSeen
    /\ jobObjs' = [j \in JobIds |->
                      IF \E u \in Uuids : jobs[u] = j
                      THEN [jobObjs[j] EXCEPT !.cancelled = TRUE]
                      ELSE jobObjs[j]]
    /\ cancelAllSeen' = cancelAllSeen \cup {j \in JobIds : Running(j)}
    /\ UNCHANGED <<jobs, nextJob, waveform, waveformQueue, staleAccess, paintVars,
                   modelVars, exportVars, playerVars>>

threadUnchanged == UNCHANGED <<nextJob, cancelAllSeen, paintVars, modelVars, exportVars, playerVars>>

\* Mutant of returnsEarly: a missing tool does not end runExtraction.
returnsEarlyIfCancelled(c, available) == c

\* The two early returns of runExtraction: cancelled read as true, or
\* locator.isFFmpegAvailable() false.
returnsEarly(c, available) == c \/ ~available

\* runExtraction up to process->start: the first test of cancelled, the tool
\* found or not, the decoder started or not. noTool records that the job
\* reached the test of the tool and found none.
JobStart(j, c, available, started) ==
    /\ jobObjs[j].pc = "start"
    /\ ReadsCancelled(j, c)
    /\ IF returnsEarly(c, available)
       THEN /\ jobObjs' = [jobObjs EXCEPT ![j].pc = "erase",
                                          ![j].noTool = ~c /\ ~available]
            /\ UNCHANGED staleAccess
       ELSE /\ jobObjs' = [jobObjs EXCEPT ![j].pc = IF started THEN "read" ELSE "erase",
                                          ![j].process = TRUE,
                                          ![j].noTool = ~c /\ ~available]
            /\ staleAccess' = IF Alive(jobObjs[j].lane) THEN staleAccess
                              ELSE staleAccess \cup {"read"}
    /\ UNCHANGED <<jobs, waveform, waveformQueue>>
    /\ threadUnchanged

\* The read loop and waitForProcessToFinish: the decoder has ended, or was
\* killed, having written rawData.
JobRead(j, rawData) ==
    /\ jobObjs[j].pc = "read"
    /\ jobObjs' = [jobObjs EXCEPT ![j].pc = "check", ![j].rawData = rawData]
    /\ UNCHANGED <<jobs, waveform, waveformQueue, staleAccess>>
    /\ threadUnchanged

\* The test of cancelled after the decoder has ended.
JobCheck(j, c) ==
    /\ jobObjs[j].pc = "check"
    /\ ReadsCancelled(j, c)
    /\ jobObjs' = [jobObjs EXCEPT ![j].pc = IF c THEN "erase" ELSE "process"]
    /\ UNCHANGED <<jobs, waveform, waveformQueue, staleAccess>>
    /\ threadUnchanged

\* processAudioData(lane, rawData) as runExtraction calls it; rawData is not
\* used after the call.
JobProcess(j, shape) ==
    /\ jobObjs[j].pc = "process"
    /\ ReadsLane(jobObjs[j].lane, shape)
    /\ LET u == jobObjs[j].lane
           writes == (jobObjs[j].rawData.size \div 4) \div shape[2] # 0
       IN  /\ waveform' = [waveform EXCEPT
                             ![u] = processAudioData(@, shape[1], shape[2], jobObjs[j].rawData)]
           /\ jobObjs' = [jobObjs EXCEPT ![j].pc = "callback", ![j].wrote = writes,
                                         ![j].rawData = NoData]
           /\ staleAccess' = IF Alive(u) THEN staleAccess
                             ELSE staleAccess \cup {"read"} \cup (IF writes THEN {"write"} ELSE {})
    /\ UNCHANGED <<jobs, waveformQueue>>
    /\ threadUnchanged

\* The test in front of the completion callback.
JobCallbackCheck(j, c) ==
    /\ jobObjs[j].pc = "callback"
    /\ ReadsCancelled(j, c)
    /\ jobObjs' = [jobObjs EXCEPT ![j].pc = IF c THEN "erase" ELSE "invoke"]
    /\ UNCHANGED <<jobs, waveform, waveformQueue, staleAccess>>
    /\ threadUnchanged

\* job->callback(lane): handleDroppedFile's callback posts notifyWaveformUpdated.
JobInvoke(j) ==
    /\ jobObjs[j].pc = "invoke"
    /\ jobObjs' = [jobObjs EXCEPT ![j].pc = "erase", ![j].fired = @ + 1]
    /\ waveformQueue' = Append(waveformQueue, jobObjs[j].lane)
    /\ UNCHANGED <<jobs, waveform, staleAccess>>
    /\ threadUnchanged

\* The end of the launched thread: jobs.erase(laneId).
JobErase(j) ==
    /\ jobObjs[j].pc = "erase"
    /\ jobObjs' = [destroyJob(jobObjs, jobObjs[j].lane) EXCEPT ![j].pc = "done"]
    /\ jobs' = [jobs EXCEPT ![jobObjs[j].lane] = 0]
    /\ UNCHANGED <<waveform, waveformQueue, staleAccess>>
    /\ threadUnchanged

\* The posted callback runs on the message thread: notifyWaveformUpdated(l).
DeliverWaveform ==
    /\ waveformQueue # <<>>
    /\ waveformQueue' = Tail(waveformQueue)
    /\ staleAccess' = IF Alive(Head(waveformQueue)) THEN staleAccess
                      ELSE staleAccess \cup {"callback"}
    /\ UNCHANGED <<jobs, jobObjs, nextJob, waveform, cancelAllSeen, paintVars,
                   modelVars, exportVars, playerVars>>

\* juce::File::withFileExtension on a file name: the name up to its last
\* dot (the whole name when it has none), a dot, the new extension.
withFileExtension(name, ext) ==
    LET dots    == {i \in 1..Len(name) : name[i] = "."}
        lastDot == IF dots = {} THEN Len(name) + 1
                   ELSE CHOOSE i \in dots : \A j \in dots : j <= i
    IN  SubSeq(name, 1, lastDot - 1) \o <<".", ext>>

\* The file the save dialog is left with in SpecExport.
ChosenFile == <<"out", ".", "wav">>

\* performExport: the chosen file with the settings' extension.
OutputFile(st) == withFileExtension(ChosenFile, getFileExtension(st))

----------------------------------------------------------------------------
(* The lane stack and the multichannel export (SpecExport) *)

\* The application after MainComponent is constructed.
Init == InitModel /\ InitExportVars /\ InitPlayer /\ InitExtractor

SpecPlayer == Init /\ [][NextPlayer]_vars

----------------------------------------------------------------------------
(* The player when play() is pressed again (SpecReplay) *)

NextReplay ==
    \/ \E ls \in PlayerLaneLists : LoadLanes(ls)
    \/ Shutdown
    \/ Destroy
    \/ \E g \in Gens, started \in BOOLEAN : DecodeStart(g, started)
    \/ \E g \in Gens, n \in 0..MaxFloats : DecodeRead(g, n)
    \/ \E g \in Gens : DecodeFinal(g)
    \/ \E g \in Gens : DecodeMix(g)
    \/ \E g \in Gens : DecodePost(g)
    \/ RunCallback
    \/ PlayEnterUpTo(MaxReplays)
    \/ PlayFinish
    \/ Stop
    \/ AudioBlockEnter
    \/ \E n \in 1..MaxFloats : AudioBlockLocked(n)

SpecReplay == Init /\ [][NextReplay]_vars

\* handleDroppedFile, the message-thread callback of a successful probe of
\* f, on the stack and the extractor.
dropFile(f, limit) ==
    /\ nextUuid + ProbeChannels[f] <= limit
    /\ nextJob + ProbeChannels[f] <= limit
    /\ lanes' = AddChannels(lanes, nextUuid + 1, f, 0)
    /\ nextUuid' = nextUuid + ProbeChannels[f]
    /\ LET new == (nextUuid + 1)..(nextUuid + ProbeChannels[f])
           jobOf(u) == nextJob + (u - nextUuid)
       IN  /\ jobs' = [u \in Uuids |-> IF u \in new THEN jobOf(u) ELSE jobs[u]]
           /\ jobObjs' = [j \in JobIds |->
                             IF \E u \in new : jobOf(u) = j
                             THEN NewJob(CHOOSE u \in new : jobOf(u) = j)
                             ELSE jobObjs[j]]
           /\ nextJob' = nextJob + ProbeChannels[f]
    /\ UNCHANGED <<waveform, waveformQueue, staleAccess, cancelAllSeen, paintVars>>

\* handleDroppedFile, the message-thread callback of a successful probe of f.
DropFile(f, limit) == dropFile(f, limit) /\ UNCHANGED <<exportVars, playerVars>>

\* LaneListComponent::laneDeleteRequested -> ProjectModel::removeLane(Lane*).
RemoveLane(index) ==
    /\ lanes' = removeLane(lanes, index)
    /\ UNCHANGED <<nextUuid, exportVars, playerVars, extractVars>>

\* LaneListComponent::mouseUp -> ProjectModel::moveLane.
MoveLane(fromIndex, toIndex) ==
    /\ lanes' = moveLane(lanes, fromIndex, toIndex)
    /\ UNCHANGED <<nextUuid, exportVars, playerVars, extractVars>>

\* clearButton.onClick -> ProjectModel::clearAllLanes.
ClearAllLanes ==
    /\ lanes # <<>>
    /\ lanes' = <<>>
    /\ UNCHANGED <<nextUuid, exportVars, playerVars, extractVars>>

\* exportMultichannelWav: builds args from the current stack and launches
\* the transcode thread with them.
ExportMultichannelTo(outputFile, st) ==
    /\ lanes # <<>>
    /\ lastExport' = [lanes |-> lanes, args |-> MultichannelArgs(lanes, st, outputFile)]
    /\ prevExport' = lastExport
    /\ runs' = LaunchedRuns("multi", <<MultichannelArgs(lanes, st, outputFile)>>)
    /\ UNCHANGED <<lastBatch, probeVars, exportQueue, reloadVars, listenVars, mixVars, modelVars, playerVars, extractVars>>

\* performExport in multichannel mode, the save dialog left with ChosenFile.
ExportMultichannel(st) == ExportMultichannelTo(OutputFile(st), st)

NextExport ==
    \/ \E f \in Files : DropFile(f, MaxUuids)
    \/ \E i \in 0..(Len(lanes) - 1) : RemoveLane(i)
    \/ \E i \in 0..(Len(lanes) - 1), j \in 0..Len(lanes) : MoveLane(i, j)
    \/ ClearAllLanes
    \/ \E st \in SettingsChoices : ExportMultichannel(st)

SpecExport == Init /\ [][NextExport]_vars

----------------------------------------------------------------------------
(* Dropping a file: the probe and what its callback does (SpecProbe) *)

\* handleDroppedFile: the launched thread calls getAudioStreams and posts
\* the result to the message thread. One file is dropped; an input the call
\* does not get to read (the process after a failed test, its end after a
\* failed start) has its first value.
HandleDroppedFile(f, toolAvailable, fileExists, started, exitCode, payload) ==
    /\ probe.pc = "idle"
    /\ (~toolAvailable \/ ~fileExists) => ~started
    /\ ~started => (exitCode = 0 /\ payload = Payload("empty", "absent", <<>>))
    /\ LET r == getAudioStreams(f, toolAvailable, fileExists, started, exitCode, payload)
       IN  probe' = [pc |-> "posted", file |-> f,
                     inputs |-> <<toolAvailable, fileExists, started, exitCode, payload>>,
                     spawned |-> r.spawned, result |-> r.result, shown |-> <<>>]
    /\ UNCHANGED <<lastExport, prevExport, lastBatch, runVars, reloadVars, listenVars, mixVars, modelVars, playerVars, extractVars>>

\* The Lane the callback creates for channel ch of stream.
LaneOfStream(id, f, stream, ch) ==
    [uuid |-> id, sourceFile |-> f, streamIndex |-> stream.streamIndex,
     channelIndex |-> ch, totalChannels |-> stream.channels,
     sampleRate |-> stream.sampleRate]

\* The posted callback of handleDroppedFile: an error or an empty result is
\* shown and nothing else happens; otherwise one lane per channel of
\* streams[0] is appended and its extraction started.
ProbeCallback ==
    /\ probe.pc = "posted"
    /\ LET result == probe.result IN
       IF ~result.success
       THEN /\ probe' = [probe EXCEPT !.pc = "shown",
                                      !.shown = <<"Error: ">> \o result.errorMessage]
            /\ UNCHANGED <<modelVars, extractVars>>
       ELSE IF result.streams = <<>>
       THEN /\ probe' = [probe EXCEPT !.pc = "shown",
                                      !.shown = <<"No audio streams found in: ",
                                                  FileName[probe.file]>>]
            /\ UNCHANGED <<modelVars, extractVars>>
       ELSE LET stream == result.streams[1]
                C      == stream.channels
                new    == (nextUuid + 1)..(nextUuid + C)
                jobOf(u) == nextJob + (u - nextUuid)
            IN  /\ nextUuid + C <= MaxUuids
                /\ nextJob + C <= MaxUuids
                /\ probe' = [probe EXCEPT !.pc = "shown",
                                          !.shown = <<"Found ">> \o Str(C)
                                                    \o <<" channel(s) in stream ">>
                                                    \o Str(stream.streamIndex)
                                                    \o <<" of ", FileName[probe.file]>>]
                /\ lanes' = lanes \o [c \in 1..C |->
                                        LaneOfStream(nextUuid + c, probe.file, stream, c - 1)]
                /\ nextUuid' = nextUuid + C
                /\ jobs' = [u \in Uuids |-> IF u \in new THEN jobOf(u) ELSE jobs[u]]
                /\ jobObjs' = [j \in JobIds |->
                                 IF \E u \in new : jobOf(u) = j
                                 THEN NewJob(CHOOSE u \in new : jobOf(u) = j)
                                 ELSE jobObjs[j]]
                /\ nextJob' = nextJob + C
                /\ UNCHANGED <<waveform, waveformQueue, staleAccess, cancelAllSeen, paintVars>>
    /\ UNCHANGED <<lastExport, prevExport, lastBatch, runVars, reloadVars, listenVars, mixVars, playerVars>>

ExitCodes == {0, 1}

NextProbe ==
    \/ \E f \in Files, toolAvailable \in BOOLEAN, fileExists \in BOOLEAN, started \in BOOLEAN,
          exitCode \in ExitCodes, payload \in Payloads :
          HandleDroppedFile(f, toolAvailable, fileExists, started, exitCode, payload)
    \/ ProbeCallback

SpecProbe == Init /\ [][NextProbe]_vars

----------------------------------------------------------------------------
(* The lane stack and the per-file exports (SpecBatch) *)

\* exportMonoWavFiles: one command per lane, each launched on its own thread.
ExportMonoWavFiles(st) ==
    /\ lanes # <<>>
    /\ lastBatch' = [mode |-> "mono", lanes |-> lanes, commands |-> MonoCommands(lanes, st)]
    /\ runs' = LaunchedRuns("mono", MonoCommands(lanes, st))
    /\ UNCHANGED <<lastExport, prevExport, probeVars, exportQueue, reloadVars, listenVars, mixVars, modelVars, playerVars,
                   extractVars>>

\* exportStereoPairs: one command per pair, each launched on its own thread.
ExportStereoPairs(st) ==
    /\ lanes # <<>>
    /\ lastBatch' = [mode |-> "stereo", lanes |-> lanes, commands |-> StereoCommands(lanes, st)]
    /\ runs' = LaunchedRuns("stereo", StereoCommands(lanes, st))
    /\ UNCHANGED <<lastExport, prevExport, probeVars, exportQueue, reloadVars, listenVars, mixVars, modelVars, playerVars,
                   extractVars>>

NextBatch ==
    \/ \E f \in Files : DropFile(f, MaxUuids)
    \/ \E i \in 0..(Len(lanes) - 1) : RemoveLane(i)
    \/ \E from \in 0..(Len(lanes) - 1), to \in 0..Len(lanes) : MoveLane(from, to)
    \/ ClearAllLanes
    \/ \E st \in SettingsChoices : ExportMonoWavFiles(st)
    \/ \E st \in SettingsChoices : ExportStereoPairs(st)

SpecBatch == Init /\ [][NextBatch]_vars

----------------------------------------------------------------------------
(* An export of each mode followed to the end of its threads (SpecRun): the *)
(* next export is started once the threads of the previous one have ended. *)

NextRun ==
    \/ \E f \in Files : DropFile(f, MaxRunLanes)
    \/ \E st \in SettingsChoices : RunsEnded /\ ExportMultichannel(st)
    \/ \E st \in SettingsChoices : RunsEnded /\ ExportMonoWavFiles(st)
    \/ \E st \in SettingsChoices : RunsEnded /\ ExportStereoPairs(st)
    \/ \E k \in 1..Len(runs), ok \in BOOLEAN : RunStart(k, ok)
    \/ \E k \in 1..Len(runs), code \in ExitCodes : RunExit(k, code)
    \/ ExportCallback

SpecRun == Init /\ [][NextRun]_vars

----------------------------------------------------------------------------
(* The stack changes and the reloads of the preview player (SpecReload):    *)
(* MainComponent as ProjectModel::Listener, its debounce timer, and         *)
(* AudioPlayer::loadLanes with the decode threads it launches. The changes  *)
(* are counted up to MaxGen, so that every reload they cause finds a       *)
(* generation left.                                                        *)

reloadUnchanged ==
    UNCHANGED <<lastExport, prevExport, lastBatch, probeVars, runVars, listenVars, mixVars>>

playerIdle ==
    UNCHANGED playerVars

\* reloadAudioNow: loadLanes with the stack as the model holds it after
\* this step.
reloadAudioNow == loadLanes(lanes')

\* handleDroppedFile's callback: addLane per channel, each notifying
\* laneAdded, which schedules the reload.
LanesAdded(f) ==
    /\ reload.changes < MaxGen
    /\ dropFile(f, MaxUuids)
    /\ reload' = [scheduleAudioReload(reload) EXCEPT !.changes = @ + 1]
    /\ reloadUnchanged /\ playerIdle

\* removeLane and laneRemoved, which schedules the reload.
LaneRemoved(index) ==
    /\ reload.changes < MaxGen
    /\ index \in 0..(Len(lanes) - 1)
    /\ lanes' = removeLane(lanes, index)
    /\ reload' = [scheduleAudioReload(reload) EXCEPT !.changes = @ + 1]
    /\ UNCHANGED <<nextUuid, extractVars>>
    /\ reloadUnchanged /\ playerIdle

\* clearButton.onClick: stop(), then clearAllLanes, which notifies
\* laneRemoved once per lane.
LanesCleared ==
    /\ reload.changes < MaxGen
    /\ lanes # <<>>
    /\ LET st == stop(playing, stoppedCount)
       IN  playing' = st[1] /\ stoppedCount' = st[2]
    /\ lanes' = <<>>
    /\ reload' = [scheduleAudioReload(reload) EXCEPT !.changes = @ + 1]
    /\ UNCHANGED <<loadState, loadGeneration, shuttingDown, audioBuffer, currentSampleRate,
                   readPosition, decodeThreads, messageQueue, controlPc, audioPc, lastPull,
                   startedCount>>
    /\ UNCHANGED <<nextUuid, extractVars>>
    /\ reloadUnchanged

\* moveLane that moves a lane, and lanesReordered: reloadAudioNow at once.
LanesReordered(fromIndex, toIndex) ==
    /\ reload.changes < MaxGen
    /\ moveLane(lanes, fromIndex, toIndex) # lanes
    /\ lanes' = moveLane(lanes, fromIndex, toIndex)
    /\ reloadAudioNow
    /\ reload' = [reload EXCEPT !.changes = @ + 1]
    /\ UNCHANGED <<nextUuid, extractVars>>
    /\ reloadUnchanged

\* MainComponent::timerCallback
TimerCallback ==
    /\ reload.timer
    /\ reload' = [reload EXCEPT !.timer = FALSE, !.pending = FALSE]
    /\ lanes' = lanes
    /\ IF reload.pending THEN reloadAudioNow ELSE playerIdle
    /\ UNCHANGED <<nextUuid, extractVars>>
    /\ reloadUnchanged

NextReload ==
    \/ \E f \in Files : LanesAdded(f)
    \/ \E index \in 0..(Len(lanes) - 1) : LaneRemoved(index)
    \/ LanesCleared
    \/ \E fromIndex \in 0..(Len(lanes) - 1), toIndex \in 0..Len(lanes) :
          LanesReordered(fromIndex, toIndex)
    \/ TimerCallback
    \/ \E g \in Gens, started \in BOOLEAN : DecodeStart(g, started)
    \/ \E g \in Gens, n \in 0..MaxFloats : DecodeRead(g, n)
    \/ \E g \in Gens : DecodeFinal(g)
    \/ \E g \in Gens : DecodeMix(g)
    \/ \E g \in Gens : DecodePost(g)
    \/ RunCallback

SpecReload == Init /\ [][NextReload]_vars

\* A started juce::Timer fires on the message thread.
SpecReloadFair == SpecReload /\ WF_vars(TimerCallback)

----------------------------------------------------------------------------
(* ProjectModel and its listeners (SpecListen): each action is one call of *)
(* the ProjectModel interface, with the Listener calls it makes before it  *)
(* returns. A call is recorded with the stack its listener finds.          *)

ListenerNames == {"MainComponent", "LaneListComponent"}

Contains(seq, x) == \E i \in 1..Len(seq) : seq[i] = x

\* Mutant of addListener: the listener is appended even when registered.
addListenerAgain(registered, listener) == Append(registered, listener)

\* ProjectModel::addListener: ListenerList::add keeps one entry per listener.
addListener(registered, listener) ==
    IF Contains(registered, listener) THEN registered ELSE Append(registered, listener)

\* ProjectModel::removeListener
removeListener(registered, listener) ==
    SelectSeq(registered, LAMBDA l : l # listener)

\* listeners.call(...): one call per registered listener, made while the
\* stack is ls.
call(registered, event, index, ls) ==
    [i \in 1..Len(registered) |->
        [listener |-> registered[i], event |-> event, index |-> index, stack |-> ls]]

\* ProjectModel::indexOfLane, 0-based, -1 when the lane is not in the stack.
indexOfLane(ls, uuid) ==
    IF \E i \in 1..Len(ls) : ls[i].uuid = uuid
    THEN (CHOOSE i \in 1..Len(ls) : ls[i].uuid = uuid /\ \A j \in 1..(i - 1) : ls[j].uuid # uuid) - 1
    ELSE -1

\* The calls of clearAllLanes: after each pop_back, laneRemoved with the
\* size the stack then has.
RECURSIVE clearCalls(_, _)
clearCalls(registered, ls) ==
    IF ls = <<>> THEN <<>>
    ELSE LET popped == SubSeq(ls, 1, Len(ls) - 1)
         IN  call(registered, "laneRemoved", Len(popped), popped)
                \o clearCalls(registered, popped)

listenUnchanged ==
    UNCHANGED <<lastExport, prevExport, lastBatch, probeVars, runVars, reloadVars, mixVars,
                playerVars, extractVars>>

AddListener(listener) ==
    /\ listeners' = addListener(listeners, listener)
    /\ calls' = <<>>
    /\ UNCHANGED modelVars /\ listenUnchanged

RemoveListener(listener) ==
    /\ listeners' = removeListener(listeners, listener)
    /\ calls' = <<>>
    /\ UNCHANGED modelVars /\ listenUnchanged

\* ProjectModel::addLane with a new Lane of file f, channel ch.
AddLaneCall(f, ch) ==
    /\ nextUuid < MaxUuids
    /\ ch < ProbeChannels[f]
    /\ lanes' = addLane(lanes, NewLane(nextUuid + 1, f, ch))
    /\ nextUuid' = nextUuid + 1
    /\ calls' = call(listeners, "laneAdded", Len(lanes), lanes')
    /\ UNCHANGED listeners /\ listenUnchanged

\* ProjectModel::removeLane(int index)
RemoveLaneCall(index) ==
    /\ lanes' = removeLane(lanes, index)
    /\ calls' = IF index < 0 \/ index >= Len(lanes) THEN <<>>
                ELSE call(listeners, "laneRemoved", index, lanes')
    /\ UNCHANGED <<nextUuid, listeners>> /\ listenUnchanged

\* ProjectModel::removeLane(Lane* lane)
RemoveLanePtrCall(uuid) ==
    LET index == indexOfLane(lanes, uuid) IN
    /\ lanes' = IF index >= 0 THEN removeLane(lanes, index) ELSE lanes
    /\ calls' = IF index >= 0 THEN call(listeners, "laneRemoved", index, lanes') ELSE <<>>
    /\ UNCHANGED <<nextUuid, listeners>> /\ listenUnchanged

\* ProjectModel::moveLane
MoveLaneCall(fromIndex, toIndex) ==
    LET size == Len(lanes)
        rejected == \/ fromIndex < 0 \/ fromIndex >= size
                    \/ toIndex < 0 \/ toIndex > size
                    \/ fromIndex = toIndex \/ fromIndex + 1 = toIndex
    IN  /\ lanes' = moveLane(lanes, fromIndex, toIndex)
        /\ calls' = IF rejected THEN <<>> ELSE call(listeners, "lanesReordered", -1, lanes')
        /\ UNCHANGED <<nextUuid, listeners>> /\ listenUnchanged

\* ProjectModel::clearAllLanes
ClearAllLanesCall ==
    /\ lanes' = <<>>
    /\ calls' = clearCalls(listeners, lanes)
    /\ UNCHANGED <<nextUuid, listeners>> /\ listenUnchanged

NextListen ==
    \/ \E listener \in ListenerNames : AddListener(listener)
    \/ \E listener \in ListenerNames : RemoveListener(listener)
    \/ \E f \in Files, ch \in 0..1 : AddLaneCall(f, ch)
    \/ \E index \in -1..Len(lanes) : RemoveLaneCall(index)
    \/ \E uuid \in 1..MaxUuids : RemoveLanePtrCall(uuid)
    \/ \E fromIndex \in -1..Len(lanes), toIndex \in -1..(Len(lanes) + 1) :
          MoveLaneCall(fromIndex, toIndex)
    \/ ClearAllLanesCall

SpecListen == Init /\ [][NextListen]_vars

----------------------------------------------------------------------------
(* performExport with each codec, in each mode (SpecNames) *)

\* One settings value per codec.
CodecSettings ==
    { [codec |-> c, bitDepth |-> "Bit24", sampleRate |-> "SROriginal"] : c \in Codecs }

\* The file names the save dialog can return: without an extension, with the
\* extension of another codec, with several dots.
ChosenFiles == { <<"out">>, ChosenFile, <<"take", ".", "1", ".", "mp3">> }

\* The stack after dropping the files fs, one after the other, on an empty one.
RECURSIVE StackOfDrops(_)
StackOfDrops(fs) ==
    IF fs = <<>> THEN <<>>
    ELSE LET before == StackOfDrops(SubSeq(fs, 1, Len(fs) - 1))
         IN  AddChannels(before, Len(before) + 1, fs[Len(fs)], 0)

NameStacks == { StackOfDrops(fs) : fs \in UNION { [1..n -> Files] : n \in 1..MaxNameDrops } }

InitNames ==
    /\ \E stack \in NameStacks : lanes = stack /\ nextUuid = Len(stack)
    /\ InitExportVars
    /\ InitPlayer
    /\ InitExtractor

NextNames ==
    \/ \E chosen \in ChosenFiles, st \in CodecSettings :
          ExportMultichannelTo(withFileExtension(chosen, getFileExtension(st)), st)
    \/ \E st \in CodecSettings : ExportMonoWavFiles(st)
    \/ \E st \in CodecSettings : ExportStereoPairs(st)

SpecNames == InitNames /\ [][NextNames]_vars

----------------------------------------------------------------------------
(* exportMultichannelWav over any stack of lanes (SpecBuilder): the lanes  *)
(* may come from any audio stream of a file, and a stream may be used by   *)
(* any number of lanes.                                                    *)

LaneDescriptors ==
    UNION { { [sourceFile |-> f, streamIndex |-> AudioStreams[f][k], channelIndex |-> ch] :
                k \in 1..Len(AudioStreams[f]), ch \in 0..1 } : f \in Files }

BuilderStacks ==
    UNION { [1..n -> LaneDescriptors] : n \in 1..MaxBuilderLanes }

LaneFrom(id, d) ==
    [uuid |-> id, sourceFile |-> d.sourceFile, streamIndex |-> d.streamIndex,
     channelIndex |-> d.channelIndex, totalChannels |-> 2,
     sampleRate |-> ProbeSampleRate[d.sourceFile]]

InitBuilder ==
    /\ \E stack \in BuilderStacks :
         /\ lanes = [i \in 1..Len(stack) |-> LaneFrom(i, stack[i])]
         /\ nextUuid = Len(stack)
    /\ InitExportVars
    /\ InitPlayer
    /\ InitExtractor

NextBuilder == \E st \in SettingsChoices : ExportMultichannel(st)

SpecBuilder == InitBuilder /\ [][NextBuilder]_vars

----------------------------------------------------------------------------
(* The three export modes over any stack (SpecModes): the stack is one of  *)
(* BuilderStacks, so that lanes of one file may name different streams.    *)

NextModes ==
    \/ \E st \in SettingsChoices : ExportMultichannel(st)
    \/ \E st \in SettingsChoices : ExportMonoWavFiles(st)
    \/ \E st \in SettingsChoices : ExportStereoPairs(st)

SpecModes == InitBuilder /\ [][NextModes]_vars

----------------------------------------------------------------------------
(* Waveform extraction while the stack changes *)

\* The decodes the read loop of an extraction ends with.
ExtractData == { [size |-> n, pattern |-> 1] : n \in {0, 8} }

NextExtract ==
    \/ \E f \in Files : DropFile(f, MaxJobs)
    \/ \E i \in 0..(Len(lanes) - 1) : RemoveLane(i)
    \/ ClearAllLanes
    \/ \E u \in Uuids : ExtractWaveform(u)
    \/ \E u \in Uuids : CancelExtraction(u)
    \/ CancelAll
    \/ \E j \in JobIds, c \in BOOLEAN, available \in BOOLEAN, started \in BOOLEAN :
          JobStart(j, c, available, started)
    \/ \E j \in JobIds, rawData \in ExtractData : JobRead(j, rawData)
    \/ \E j \in JobIds, c \in BOOLEAN : JobCheck(j, c)
    \/ \E j \in JobIds, shape \in LaneShapes : JobProcess(j, shape)
    \/ \E j \in JobIds, c \in BOOLEAN : JobCallbackCheck(j, c)
    \/ \E j \in JobIds : JobInvoke(j)
    \/ \E j \in JobIds : JobErase(j)
    \/ DeliverWaveform

SpecExtract == Init /\ [][NextExtract]_vars

----------------------------------------------------------------------------
(* One extraction at a time, from the drop to the delivered callback       *)
(* (SpecTool)                                                              *)

NextTool ==
    \/ \E f \in Files : DropFile(f, MaxToolJobs)
    \/ \E i \in 0..(Len(lanes) - 1) : RemoveLane(i)
    \/ CancelAll
    \/ \E j \in JobIds, c \in BOOLEAN, available \in BOOLEAN, started \in BOOLEAN :
          JobStart(j, c, available, started)
    \/ \E j \in JobIds, rawData \in ExtractData : JobRead(j, rawData)
    \/ \E j \in JobIds, c \in BOOLEAN : JobCheck(j, c)
    \/ \E j \in JobIds, shape \in LaneShapes : JobProcess(j, shape)
    \/ \E j \in JobIds, c \in BOOLEAN : JobCallbackCheck(j, c)
    \/ \E j \in JobIds : JobInvoke(j)
    \/ \E j \in JobIds : JobErase(j)
    \/ DeliverWaveform

SpecTool == Init /\ [][NextTool]_vars

----------------------------------------------------------------------------
(* processAudioData on the decodes an extraction can end with *)

EnvelopeFrames ==
    (0..MaxSmallFrames) \cup
    { k * kDefaultEnvelopePoints + d : k \in 1..MaxMultiple, d \in {-1, 0, 1} }

\* Decodes of F whole frames of a stream, followed or not by a part of a
\* frame and by a part of a float.
EnvelopeData(totalChannels) ==
    { [size |-> 4 * (F * totalChannels + e) + b, pattern |-> p] :
        F \in EnvelopeFrames, e \in {0, totalChannels - 1}, b \in {0, 3},
        p \in 1..MaxPatterns }

\* The envelope of the lane when the extraction starts: that of a new Lane, or
\* the one an earlier extraction left.
PriorEnvelopes ==
    { EmptyEnvelope,
      [minValues |-> <<-1>>, maxValues |-> <<1>>, numPoints |-> 1, isReady |-> TRUE] }

\* One lane has been dropped and its extraction has read the decoder's
\* output and passed the test of cancelled.
InitEnvelope ==
    /\ InitExportVars
    /\ InitPlayer
    /\ \E f \in Files, ch \in 0..1 :
          /\ ch < ProbeChannels[f]
          /\ lanes = <<NewLane(1, f, ch)>>
          /\ \E rawData \in EnvelopeData(ProbeChannels[f]) :
                jobObjs = [j \in JobIds |->
                             IF j = 1
                             THEN [NewJob(1) EXCEPT !.pc = "process", !.process = TRUE,
                                                    !.rawData = rawData]
                             ELSE NoJob]
    /\ nextUuid = 1
    /\ jobs = [u \in Uuids |-> IF u = 1 THEN 1 ELSE 0]
    /\ nextJob = 1
    /\ \E prior \in PriorEnvelopes :
          waveform = [u \in Uuids |-> IF u = 1 THEN prior ELSE EmptyEnvelope]
    /\ waveformQueue = <<>>
    /\ staleAccess = {}
    /\ cancelAllSeen = {}
    /\ writer = NoWriter

NextEnvelope ==
    \E j \in JobIds, shape \in LaneShapes : JobProcess(j, shape)

SpecEnvelope == InitEnvelope /\ [][NextEnvelope]_vars

----------------------------------------------------------------------------
(* processAudioData statement by statement, beside the message thread      *)
(* (SpecPaint). The envelope is written without a lock and isReady is a     *)
(* plain bool, so the order in which the stores of the extraction thread    *)
(* reach the memory the message thread reads is not fixed, except for       *)
(* stores to the same vector.                                               *)

\* The extraction thread enters processAudioData.
WriterEnter(j, shape) ==
    /\ jobObjs[j].pc = "process"
    /\ writer = NoWriter
    /\ ReadsLane(jobObjs[j].lane, shape)
    /\ writer' = [lane |-> jobObjs[j].lane,
                  stores |-> EnvelopeStores(shape[1], shape[2], jobObjs[j].rawData),
                  issued |-> 0, pending |-> <<>>]
    /\ jobObjs' = [jobObjs EXCEPT ![j].pc = "processing"]
    /\ UNCHANGED <<jobs, nextJob, waveform, waveformQueue, staleAccess, cancelAllSeen,
                   modelVars, exportVars, playerVars>>

\* The thread executes its next store.
WriterIssue ==
    /\ writer.issued < Len(writer.stores)
    /\ writer' = [writer EXCEPT !.issued = @ + 1, !.pending = Append(@, writer.issued + 1)]
    /\ UNCHANGED <<jobs, jobObjs, nextJob, waveform, waveformQueue, staleAccess, cancelAllSeen,
                   modelVars, exportVars, playerVars>>

\* A store that no earlier store to the same field waits behind reaches the
\* memory the message thread reads.
StoreVisible(i) ==
    /\ i \in 1..Len(writer.pending)
    /\ \A k \in 1..(i - 1) :
          writer.stores[writer.pending[k]].loc # writer.stores[writer.pending[i]].loc
    /\ waveform' = [waveform EXCEPT
                      ![writer.lane] = StoreApplied(@, writer.stores[writer.pending[i]])]
    /\ writer' = [writer EXCEPT
                    !.pending = SubSeq(@, 1, i - 1) \o SubSeq(@, i + 1, Len(@))]
    /\ UNCHANGED <<jobs, jobObjs, nextJob, waveformQueue, staleAccess, cancelAllSeen,
                   modelVars, exportVars, playerVars>>

\* Decodes of up to MaxPaintFrames whole frames.
PaintData(totalChannels) ==
    { [size |-> 4 * F * totalChannels, pattern |-> 1] : F \in 0..MaxPaintFrames }

InitPaint ==
    /\ InitExportVars
    /\ InitPlayer
    /\ \E f \in Files, ch \in 0..1 :
          /\ ch < ProbeChannels[f]
          /\ lanes = <<NewLane(1, f, ch)>>
          /\ \E rawData \in PaintData(ProbeChannels[f]) :
                jobObjs = [j \in JobIds |->
                             IF j = 1
                             THEN [NewJob(1) EXCEPT !.pc = "process", !.process = TRUE,
                                                    !.rawData = rawData]
                             ELSE NoJob]
    /\ nextUuid = 1
    /\ jobs = [u \in Uuids |-> IF u = 1 THEN 1 ELSE 0]
    /\ nextJob = 1
    /\ \E prior \in PriorEnvelopes :
          waveform = [u \in Uuids |-> IF u = 1 THEN prior ELSE EmptyEnvelope]
    /\ waveformQueue = <<>>
    /\ staleAccess = {}
    /\ cancelAllSeen = {}
    /\ writer = NoWriter

NextPaint ==
    \/ \E j \in JobIds, shape \in LaneShapes : WriterEnter(j, shape)
    \/ WriterIssue
    \/ \E i \in 1..Len(writer.pending) : StoreVisible(i)

SpecPaint == InitPaint /\ [][NextPaint]_vars

----------------------------------------------------------------------------
(* Reading a built command back *)

Reverse(s) == [i \in 1..Len(s) |-> s[Len(s) + 1 - i]]

Has(s, tok) == \E i \in 1..Len(s) : s[i] = tok
PosOf(s, tok) == CHOOSE i \in 1..Len(s) : s[i] = tok /\ \A j \in 1..(i - 1) : s[j] # tok

\* The filter graph of an argument vector, as its list of filters.
FilterGraphOf(args) == args[PosOf(args, <<"-filter_complex">>) + 1]
FiltersOf(args) == Tokens(FilterGraphOf(args), ";")

\* The files named by "-i", in order.
RECURSIVE InputsOf(_)
InputsOf(args) ==
    IF Len(args) < 2 THEN <<>>
    ELSE IF args[1] = <<"-i">> THEN <<args[2]>> \o InputsOf(SubSeq(args, 3, Len(args)))
    ELSE InputsOf(Tail(args))

IsPanFilter(f)   == Has(f, "pan=mono|c0=c")
IsMergeFilter(f) == Has(f, "amerge=inputs=")
IsSplitFilter(f) == Has(f, "asplit=")

\* A pan filter is  <input label> pan=mono|c0=c <channel> [m <k> ] .
PanInput(f)   == SubSeq(f, 1, PosOf(f, "pan=mono|c0=c") - 1)
PanSelects(f) == SubSeq(f, PosOf(f, "pan=mono|c0=c") + 1, PosOf(f, "[m") - 1)
PanOutput(f)  == SubSeq(f, PosOf(f, "[m"), Len(f))

\* The input number a pan filter's input label leads to: "[n:a]" directly,
\* or "[sn_j]", an output of the split of input n.
PanInputNumber(f) ==
    LET lab == PanInput(f)
    IN  IF lab[1] = "[" THEN SubSeq(lab, 2, PosOf(lab, ":a]") - 1)
        ELSE SubSeq(lab, 2, PosOf(lab, "_") - 1)

RECURSIVE ExpectedMonoLabels(_, _)
ExpectedMonoLabels(k, n) ==
    IF k >= n THEN <<>> ELSE <<"[m">> \o Str(k) \o <<"]">> \o ExpectedMonoLabels(k + 1, n)

\* The channels the pan filters select, in the order the filters appear.
PanChannelsOf(args) ==
    LET fs == FiltersOf(args)
        P(i) == IsPanFilter(fs[i])
        RECURSIVE Walk(_)
        Walk(i) == IF i > Len(fs) THEN <<>>
                   ELSE (IF P(i) THEN <<PanSelects(fs[i])>> ELSE <<>>) \o Walk(i + 1)
    IN  Walk(1)

\* C1: a multichannel command built for N >= 1 lanes has exactly N
\* channel-selection (pan) filters and one merge filter, the merge being
\* [m0]..[m(N-1)]amerge=inputs=N[out]; the filter producing [mk] selects
\* c<channelIndex of lane k> and reads the input that names lane k's file.
MultichannelOrderOK(e) ==
    LET n  == Len(e.lanes)
        fs == FiltersOf(e.args)
        pans   == {i \in 1..Len(fs) : IsPanFilter(fs[i])}
        merges == {i \in 1..Len(fs) : IsMergeFilter(fs[i])}
    IN  /\ Cardinality(pans) = n
        /\ merges = {Len(fs)}
        /\ fs[Len(fs)] = ExpectedMonoLabels(0, n) \o <<"amerge=inputs=">> \o Str(n) \o <<"[out]">>
        /\ \A k \in 0..(n - 1) :
             LET mk == {i \in pans : PanOutput(fs[i]) = <<"[m">> \o Str(k) \o <<"]">>}
             IN  /\ Cardinality(mk) = 1
                 /\ \A i \in mk :
                      /\ PanSelects(fs[i]) = Str(e.lanes[k + 1].channelIndex)
                      /\ \E x \in 0..(Len(InputsOf(e.args)) - 1) :
                           /\ PanInputNumber(fs[i]) = Str(x)
                           /\ InputsOf(e.args)[x + 1] = <<FileName[e.lanes[k + 1].sourceFile]>>

C1_MultichannelChannelOrder == lastExport # NoExport => MultichannelOrderOK(lastExport)

\* C1 witness: a command was built for three lanes, two of them sharing a
\* source, in an order that is not the order the channels have in the file.
C1_Witness ==
    /\ lastExport # NoExport
    /\ Len(lastExport.lanes) = 3
    /\ lastExport.lanes[1].channelIndex = 1
    /\ lastExport.lanes[3].sourceFile = lastExport.lanes[1].sourceFile
    /\ lastExport.lanes[2].sourceFile # lastExport.lanes[1].sourceFile

\* The part of a command that the lane stack decides: inputs and filter graph.
StackPart(args) == <<InputsOf(args), FilterGraphOf(args)>>

Reordered == /\ prevExport # NoExport
             /\ Len(prevExport.lanes) = 2
             /\ lastExport.lanes = Reverse(prevExport.lanes)

SameDescriptor(a, b) ==
    /\ a.sourceFile = b.sourceFile
    /\ a.channelIndex = b.channelIndex

\* C6 as stated: the commands built for [A,B] and then for [B,A] select the
\* channels in reversed order and are never identical.
C6_Original ==
    Reordered =>
        /\ PanChannelsOf(lastExport.args) = Reverse(PanChannelsOf(prevExport.args))
        /\ StackPart(lastExport.args) # StackPart(prevExport.args)

\* C6 amended: the channel selections are reversed for any two lanes, and the
\* commands differ whenever the two lanes differ in source file or channel.
C6_ReorderReversesChannels ==
    Reordered =>
        /\ PanChannelsOf(lastExport.args) = Reverse(PanChannelsOf(prevExport.args))
        /\ PanChannelsOf(lastExport.args) =
               <<Str(lastExport.lanes[1].channelIndex), Str(lastExport.lanes[2].channelIndex)>>
        /\ (~SameDescriptor(prevExport.lanes[1], prevExport.lanes[2])
               => StackPart(lastExport.args) # StackPart(prevExport.args))

\* C6 witness: [A,B] was exported, the lanes were swapped, [B,A] was exported,
\* A and B being different channels of one file.
C6_Witness ==
    /\ Reordered
    /\ prevExport.lanes[1].sourceFile = prevExport.lanes[2].sourceFile
    /\ prevExport.lanes[1].channelIndex # prevExport.lanes[2].channelIndex

----------------------------------------------------------------------------
(* Claims about the preview player *)

\* C2: when loadLanes has been called again, only the decode of the latest
\* generation is ever applied: every step that installs a decoded buffer or
\* changes the sample rate runs the completion callback of the generation
\* that is current, and installs that decode's buffer and sample rate; a
\* callback of an earlier generation installs nothing, also when it arrives
\* after the later decode was applied.
C2_OnlyLatestGenerationApplied ==
    [][ ((audioBuffer' # audioBuffer /\ audioBuffer' # EmptyBuffer)
            \/ currentSampleRate' # currentSampleRate)
        => /\ messageQueue # <<>>
           /\ Head(messageQueue).kind = "complete"
           /\ Head(messageQueue).gen = loadGeneration
           /\ loadGeneration' = loadGeneration
           /\ audioBuffer' = Head(messageQueue).buf
           /\ audioBuffer'.gen = loadGeneration
           /\ currentSampleRate' = Head(messageQueue).sr ]_vars

\* The first decode finishes last: its completion callback waits on the
\* message thread when the second decode has already been applied.
C2_Witness ==
    /\ loadGeneration = 2
    /\ audioBuffer.gen = 2
    /\ loadState = "Ready"
    /\ messageQueue # <<>>
    /\ Head(messageQueue).kind = "complete"
    /\ Head(messageQueue).gen = 1

\* C9: the load state moves to Ready or Error only from Loading, by the
\* completion (resp. error) callback of the current generation; loadLanes
\* moves any state to Empty for an empty list and to Loading otherwise; no
\* other step changes the load state.
C9_LoadStateTransitions ==
    [][ /\ (loadState' # loadState /\ loadState' \in {"Ready", "Error"})
           => /\ loadState = "Loading"
              /\ messageQueue # <<>>
              /\ Head(messageQueue).gen = loadGeneration
              /\ Head(messageQueue).kind = (IF loadState' = "Ready" THEN "complete" ELSE "error")
              /\ loadGeneration' = loadGeneration
              /\ ~shuttingDown
        /\ (loadState' # loadState /\ loadState' \notin {"Ready", "Error"})
           => \E ls \in PlayerLaneLists : LoadLanes(ls)
        /\ \A ls \in PlayerLaneLists :
              LoadLanes(ls) => loadState' = (IF ls = <<>> THEN "Empty" ELSE "Loading") ]_vars

\* A second loadLanes was made while the first decode had failed: the state is
\* Loading again and the first decode's error callback is still to be run.
C9_Witness ==
    /\ loadGeneration = 2
    /\ loadState = "Loading"
    /\ messageQueue # <<>>
    /\ Head(messageQueue).kind = "error"
    /\ Head(messageQueue).gen = 1

\* C10: playing is true only while the load state is Ready and the buffer is
\* non-empty; play() in any other state changes nothing and fires no start
\* event; play() from Ready with a non-empty buffer resets the read cursor to
\* 0, sets playing and fires the start event.
C10_PlayOnlyWhenReady ==
    /\ [](playing => (loadState = "Ready" /\ audioBuffer.numSamples > 0))
    /\ [](controlPc = "play" => (loadState = "Ready" /\ audioBuffer.numSamples > 0
                                   /\ readPosition <= audioBuffer.numSamples))
    /\ [][ PlayEnter =>
             IF loadState = "Ready" /\ audioBuffer.numSamples > 0
             THEN readPosition' = 0 /\ controlPc' = "play"
             ELSE UNCHANGED vars ]_vars
    /\ [][ PlayFinish => (playing' /\ startedCount' = startedCount + 1) ]_vars
    /\ [][ startedCount' # startedCount => PlayFinish ]_vars

\* play() has started playback of the buffer the second load installed.
C10_Witness ==
    /\ playing
    /\ startedCount = 1
    /\ controlPc = "idle"
    /\ readPosition = 0
    /\ audioBuffer = [gen |-> 2, numSamples |-> 2]

----------------------------------------------------------------------------
(* Claims about waveform extraction *)

\* Job j was superseded: a later extractWaveform was made for its lane.
Superseded(j) ==
    /\ jobObjs[j].pc # "none"
    /\ \E k \in JobIds : k > j /\ jobObjs[k].pc # "none" /\ jobObjs[k].lane = jobObjs[j].lane

\* C3: when extractWaveform is called for a lane whose earlier extraction is
\* still in flight, the registry holds the newer job for that lane for as long
\* as the newer job runs, and the superseded job, still inside runExtraction,
\* has not invoked its callback.
C3_OneJobPerLane ==
    \A j \in JobIds :
        /\ (jobObjs[j].pc \notin {"none", "done"}
              /\ (\E k \in JobIds : k < j /\ Superseded(k) /\ jobObjs[k].lane = jobObjs[j].lane)
              /\ ~Superseded(j))
           => jobs[jobObjs[j].lane] = j
        /\ (Superseded(j) /\ Running(j)) => jobObjs[j].fired = 0

\* C4: a job whose cancelled flag has been set does not, from then on, write
\* the lane's envelope or invoke its completion callback, whatever point of
\* runExtraction the flag was set at.
C4_CancelledJobLeavesNoTrace ==
    [][ \A j \in JobIds :
           (jobObjs[j].cancelled /\ ~jobObjs[j].freed /\ Running(j))
           => /\ jobObjs'[j].fired = jobObjs[j].fired
              /\ (jobObjs[j].pc = "process"
                    => (~jobObjs'[j].wrote
                          /\ waveform'[jobObjs[j].lane] = waveform[jobObjs[j].lane])) ]_vars

\* C5: no extraction job outlives its lane: after removeLane or clearAllLanes
\* no job reads the removed Lane, writes its envelope, or has its completion
\* callback delivered for it.
C5_NoJobOutlivesItsLane == staleAccess = {}

\* C7: for every decoded frame count F >= 1, the bucket count processAudioData
\* leaves in the envelope is at most the target resolution and equals
\* ceil(F / samplesPerBucket), samplesPerBucket being the frames a bucket covers.
C7_BucketCountBounded ==
    [][ \A j \in JobIds :
           (jobObjs[j].pc = "process" /\ jobObjs'[j].pc = "callback" /\ Alive(jobObjs[j].lane))
           => LET u == jobObjs[j].lane
                  F == (jobObjs[j].rawData.size \div 4) \div LaneOf(u).totalChannels
                  samplesPerBucket ==
                      IF F \div kDefaultEnvelopePoints > 1
                      THEN F \div kDefaultEnvelopePoints ELSE 1
              IN  F >= 1 =>
                    /\ waveform'[u].numPoints <= kDefaultEnvelopePoints
                    /\ waveform'[u].numPoints * samplesPerBucket >= F
                    /\ (waveform'[u].numPoints - 1) * samplesPerBucket < F ]_vars

\* C8: a job that is never cancelled and whose decoder started invokes its
\* completion callback at most once, and only with the lane's envelope marked
\* ready.
C8_CallbackOnlyWhenReady ==
    \A j \in JobIds :
        (jobObjs[j].fired > 0 /\ ~jobObjs[j].cancelled /\ ~jobObjs[j].freed
            /\ Alive(jobObjs[j].lane))
        => (jobObjs[j].fired = 1 /\ waveform[jobObjs[j].lane].isReady)

----------------------------------------------------------------------------
(* Claims about the audio pull and decode failures *)

\* A getNextAudioBlock call returns in this step.
PullReturns ==
    \/ audioPc = "locked" /\ audioPc' = "idle"
    \/ audioPc = "idle" /\ audioPc' = "idle" /\ lastPull' # lastPull

\* C11: a getNextAudioBlock call that returns while the player is not playing
\* or its load state is not Ready has left the output silent, has not advanced
\* the read cursor and has notified no position, also when stop() or
\* loadLanes() ran on the message thread during the call.
C11_SilentWhenNotPlaying ==
    [][ (PullReturns /\ (~playing \/ loadState # "Ready"))
        => (lastPull' = NoPull /\ readPosition' = readPosition) ]_vars

\* The message thread runs an error callback in this step.
RunsErrorCallback ==
    /\ messageQueue # <<>>
    /\ Head(messageQueue).kind = "error"
    /\ messageQueue' = Tail(messageQueue)

\* C12: a decode thread of the current generation whose decoder cannot be
\* started, or that decoded zero bytes, posts the error callback; run for the
\* current generation the callback sets the load state to Error, run for a
\* superseded generation it leaves the state; in both cases the buffer, the
\* sample rate and the read cursor are unchanged.
C12_DecodeFailure ==
    /\ [][ \A g \in Gens :
             (decodeThreads[g].pc \in {"start", "final"} /\ decodeThreads'[g].pc = "done"
                 /\ g = loadGeneration /\ ~shuttingDown)
             => messageQueue' = Append(messageQueue, [kind |-> "error", gen |-> g]) ]_vars
    /\ [][ RunsErrorCallback
           => /\ UNCHANGED <<audioBuffer, currentSampleRate, readPosition>>
              /\ loadState' = IF Head(messageQueue).gen = loadGeneration /\ ~shuttingDown
                              THEN "Error" ELSE loadState ]_vars

\* The second load failed: the state is Error and the buffer is still the one
\* the first decode installed.
C12_Witness ==
    /\ loadState = "Error"
    /\ loadGeneration = 2
    /\ audioBuffer.gen = 1
    /\ audioBuffer.numSamples > 0

\* C13: cancelAll() cancels every extraction job that is still running: no
\* job whose thread was running when a cancelAll() call returned invokes its
\* completion callback afterwards.
C13_CancelAllStopsCallbacks ==
    [][ \A j \in cancelAllSeen : jobObjs'[j].fired = jobObjs[j].fired ]_vars

----------------------------------------------------------------------------
(* Claims about the per-file exports *)

\* The decimal number a string of digits writes.
DigitValue(d) == (CHOOSE k \in 1..10 : Digit[k] = d) - 1
RECURSIVE Num(_)
Num(s) == IF s = <<>> THEN 0 ELSE 10 * Num(SubSeq(s, 1, Len(s) - 1)) + DigitValue(s[Len(s)])

\* A filter that reads an input stream directly is
\*   [ <input> :a: <stream> ] pan=mono|c0=c <channel> <output label> .
StreamPanInput(f)   == SubSeq(f, 2, PosOf(f, ":a:") - 1)
StreamPanStream(f)  == SubSeq(f, PosOf(f, ":a:") + 1, PosOf(f, "]") - 1)
StreamPanSelects(f) == SubSeq(f, PosOf(f, "pan=mono|c0=c") + 1, Len(f) - 1)

\* The file the input label of filter f leads to: the file of the f's input
\* number among the command's "-i" arguments.
StreamPanFile(args, f) ==
    {file \in Files : \E x \in 0..(Len(InputsOf(args)) - 1) :
        /\ StreamPanInput(f) = Str(x)
        /\ InputsOf(args)[x + 1] = <<FileName[file]>>}

\* In command args exactly one pan filter produces label out, and it selects
\* lane's channel from an input that names lane's file.
SelectsLaneChannel(args, out, lane) ==
    LET fs   == FiltersOf(args)
        outs == {i \in 1..Len(fs) : IsPanFilter(fs[i]) /\ fs[i][Len(fs[i])] = out}
    IN  /\ Cardinality(outs) = 1
        /\ \A i \in outs :
             /\ fs[i][1] = "[" /\ Has(fs[i], ":a:")
             /\ StreamPanSelects(fs[i]) = Str(lane.channelIndex)
             /\ StreamPanFile(args, fs[i]) = {lane.sourceFile}

\* The stream of file the decoder hands to a filter whose input label is
\* [x:a:n]: the n-th (0-based) audio stream of the file, by its index in
\* the file; none when the file has no such audio stream.
NthAudioStream(file, n) ==
    IF n < Len(AudioStreams[file]) THEN {AudioStreams[file][n + 1]} ELSE {}

\* The pan filter of args that produces label out reads the stream that
\* lane.streamIndex names in lane's file.
ReadsLaneStream(args, out, lane) ==
    LET fs == FiltersOf(args) IN
    \A i \in 1..Len(fs) :
        (IsPanFilter(fs[i]) /\ fs[i][Len(fs[i])] = out) =>
            \E n \in 0..9 : /\ StreamPanStream(fs[i]) = Str(n)
                            /\ NthAudioStream(lane.sourceFile, n) = {lane.streamIndex}

\* C14: in stereo-pairs mode a stack of N lanes yields ceil(N/2) commands;
\* the command of pair p takes its left channel from lane 2p and its right
\* channel from lane 2p+1, and when N is odd the last command takes both its
\* left and its right channel from the last lane.
C14_StereoPairs ==
    lastBatch.mode = "stereo" =>
        LET ls   == lastBatch.lanes
            n    == Len(ls)
            cmds == lastBatch.commands
        IN  /\ 2 * Len(cmds) >= n
            /\ 2 * (Len(cmds) - 1) < n
            /\ \A p \in 0..(Len(cmds) - 1) :
                 LET args == cmds[p + 1]
                     fs   == FiltersOf(args)
                 IN  /\ 2 * p + 1 <= n
                     /\ SelectsLaneChannel(args, "[left]", ls[2 * p + 1])
                     /\ SelectsLaneChannel(args, "[right]",
                                         IF 2 * p + 2 <= n THEN ls[2 * p + 2] ELSE ls[2 * p + 1])
                     /\ Len(fs) = 3
                     /\ fs[3] = <<"[left]", "[right]", "amerge=inputs=", "2", "[out]">>

\* C14 witness: a stereo-pairs export of three lanes from two sources built
\* two commands.
C14_Witness ==
    /\ lastBatch.mode = "stereo"
    /\ Len(lastBatch.lanes) = 3
    /\ Len(lastBatch.commands) = 2
    /\ lastBatch.lanes[1].sourceFile # lastBatch.lanes[2].sourceFile

\* The output file of a command: its last argument.
OutputOf(args) == args[Len(args)]

\* The number in a mono file's name: dir/ channel_ <digits> _ <stem> . <ext>
MonoNameNumber(name) == Num(SubSeq(name, 3, PosOf(name, "_") - 1))

\* C15: in mono-files mode the number of commands equals the lane count;
\* command i has lane i's file as its only input and one filter, which
\* selects lane i's channel and reads the stream of that file that lane i's
\* streamIndex names; its output file is
\* channel_<i, two digits>_<stem of lane i's file>.<ext>, so the numbers in
\* the names rise strictly with the stack position and the names are distinct.
C15_MonoFiles ==
    lastBatch.mode = "mono" =>
        LET ls   == lastBatch.lanes
            n    == Len(ls)
            cmds == lastBatch.commands
            ext  == SubSeq(OutputOf(cmds[1]), Len(OutputOf(cmds[1])) - 1, Len(OutputOf(cmds[1])))
        IN  /\ Len(cmds) = n
            /\ \A i \in 1..n :
                 /\ InputsOf(cmds[i]) = << <<FileName[ls[i].sourceFile]>> >>
                 /\ Len(FiltersOf(cmds[i])) = 1
                 /\ SelectsLaneChannel(cmds[i], "[out]", ls[i])
                 /\ ReadsLaneStream(cmds[i], "[out]", ls[i])
                 /\ OutputOf(cmds[i]) = <<"dir/", "channel_">> \o paddedLeft(Str(i), "0", 2)
                                        \o <<"_", FileStem[ls[i].sourceFile]>> \o ext
                 /\ MonoNameNumber(OutputOf(cmds[i])) = i
            /\ \A i, j \in 1..n :
                 i < j => /\ OutputOf(cmds[i]) # OutputOf(cmds[j])
                          /\ MonoNameNumber(OutputOf(cmds[i])) < MonoNameNumber(OutputOf(cmds[j]))

----------------------------------------------------------------------------
(* Claims about the sources of a multichannel command *)

\* The labels of a run of labels, each ending in "]".
RECURSIVE LabelsOf(_)
LabelsOf(toks) ==
    IF toks = <<>> THEN <<>>
    ELSE LET n == PosOf(toks, "]")
         IN  <<SubSeq(toks, 1, n)>> \o LabelsOf(SubSeq(toks, n + 1, Len(toks)))

\* A split filter is  <input label> asplit= <count> <output label>... .
SplitInput(f)   == SubSeq(f, 1, PosOf(f, "asplit=") - 1)
SplitRest(f)    == SubSeq(f, PosOf(f, "asplit=") + 1, Len(f))
SplitCount(f)   == SubSeq(SplitRest(f), 1, PosOf(SplitRest(f), "[s") - 1)
SplitOutputs(f) == LabelsOf(SubSeq(SplitRest(f), PosOf(SplitRest(f), "[s"), Len(SplitRest(f))))

\* The distinct (sourceFile, streamIndex) of a stack, and the lanes using one.
SourcesOf(ls) == { <<ls[i].sourceFile, ls[i].streamIndex>> : i \in 1..Len(ls) }
UsersOf(ls, src) == { i \in 1..Len(ls) : <<ls[i].sourceFile, ls[i].streamIndex>> = src }

\* The pan filters of fs that produce lane k's (1-based) label [m(k-1)].
PansOfLane(fs, k) ==
    { i \in 1..Len(fs) : IsPanFilter(fs[i]) /\ PanOutput(fs[i]) = <<"[m">> \o Str(k - 1) \o <<"]">> }

\* Source src, given input number x, is wired as the claim says: used by
\* one lane, no split reads input x and the lane's pan filter reads [x:a];
\* used by k >= 2 lanes, one split reads [x:a], has k distinct outputs, and
\* each output is read by exactly one pan filter, a pan filter of one of the
\* k lanes, every one of which reads one of the outputs.
SourceWired(e, src, x) ==
    LET ls     == e.lanes
        fs     == FiltersOf(e.args)
        users  == UsersOf(ls, src)
        direct == <<"[">> \o Str(x) \o <<":a]">>
        splits == { i \in 1..Len(fs) : IsSplitFilter(fs[i]) /\ SplitInput(fs[i]) = direct }
        pans   == { i \in 1..Len(fs) : IsPanFilter(fs[i]) }
    IN  IF Cardinality(users) = 1
        THEN /\ splits = {}
             /\ \A k \in users : \A i \in PansOfLane(fs, k) : PanInput(fs[i]) = direct
        ELSE /\ Cardinality(splits) = 1
             /\ \A i \in splits :
                  LET outs == SplitOutputs(fs[i]) IN
                  /\ SplitCount(fs[i]) = Str(Cardinality(users))
                  /\ Len(outs) = Cardinality(users)
                  /\ \A a, b \in 1..Len(outs) : a # b => outs[a] # outs[b]
                  /\ \A a \in 1..Len(outs) :
                       LET readers == { j \in pans : PanInput(fs[j]) = outs[a] }
                       IN  /\ Cardinality(readers) = 1
                           /\ \A j \in readers : \E k \in users : j \in PansOfLane(fs, k)
                  /\ \A k \in users : \A j \in PansOfLane(fs, k) :
                       \E a \in 1..Len(outs) : PanInput(fs[j]) = outs[a]

\* C16: a multichannel command lists exactly one input per distinct
\* (sourceFile, streamIndex) of the stack; a source used by one lane is read
\* directly by that lane's pan filter, and a source used by k >= 2 lanes gets
\* exactly one split with k outputs, each read by exactly one of the k lanes'
\* pan filters.
C16_OneInputPerSource ==
    lastExport # NoExport =>
        LET ls     == lastExport.lanes
            fs     == FiltersOf(lastExport.args)
            inputs == InputsOf(lastExport.args)
            srcs   == SourcesOf(ls)
        IN  /\ Len(inputs) = Cardinality(srcs)
            /\ Cardinality({ i \in 1..Len(fs) : IsSplitFilter(fs[i]) })
                 = Cardinality({ src \in srcs : Cardinality(UsersOf(ls, src)) > 1 })
            /\ \A k \in 1..Len(ls) : Cardinality(PansOfLane(fs, k)) = 1
            /\ \E g \in [srcs -> 0..(Len(inputs) - 1)] :
                 /\ \A a, b \in srcs : a # b => g[a] # g[b]
                 /\ \A src \in srcs :
                      /\ inputs[g[src] + 1] = <<FileName[src[1]]>>
                      /\ SourceWired(lastExport, src, g[src])

\* C16 witness: a command was built for three lanes, two of them channels of
\* one stream and the third from another stream of the same file.
C16_Witness ==
    /\ lastExport # NoExport
    /\ Len(lastExport.lanes) = 3
    /\ Cardinality(SourcesOf(lastExport.lanes)) = 2
    /\ lastExport.lanes[1].sourceFile = lastExport.lanes[2].sourceFile
    /\ lastExport.lanes[1].streamIndex # lastExport.lanes[2].streamIndex
    /\ lastExport.lanes[3] = [lastExport.lanes[1] EXCEPT !.uuid = 3, !.channelIndex = 1]

\* The label of the input stream that pan filter f reads, directly or through
\* the split whose output it takes.
InputStreamLabel(fs, f) ==
    IF PanInput(f)[1] = "[" THEN PanInput(f)
    ELSE LET i == CHOOSE i \in 1..Len(fs) :
                     /\ IsSplitFilter(fs[i])
                     /\ \E a \in 1..Len(SplitOutputs(fs[i])) : SplitOutputs(fs[i])[a] = PanInput(f)
         IN  SplitInput(fs[i])

\* The stream of file that an input stream label names: [x:a:n] the n-th
\* audio stream, [x:a] the first audio stream.
LabelStream(file, lab) ==
    IF Has(lab, ":a:")
    THEN UNION { NthAudioStream(file, n) :
                 n \in {m \in 0..9 : SubSeq(lab, PosOf(lab, ":a:") + 1, Len(lab) - 1) = Str(m)} }
    ELSE NthAudioStream(file, 0)

\* Two lanes of the stack come from different streams of one file.
TwoStreamsOfOneFile(ls) ==
    \E j, k \in 1..Len(ls) : /\ ls[j].sourceFile = ls[k].sourceFile
                             /\ ls[j].streamIndex # ls[k].streamIndex

----------------------------------------------------------------------------
(* Claims about a dropped file *)

\* A step appended lanes for a probed file: Lane objects were created.
LanesCreated == nextUuid' # nextUuid

\* The step appended, after the lanes already there, exactly C lanes for
\* file f, C the channel count of its first stream, with channelIndex
\* 0..C-1 in that order and the stream's streamIndex and totalChannels.
AppendedChannelsOf(f) ==
    LET C == ProbeChannels[f] IN
    /\ Len(lanes') = Len(lanes) + C
    /\ SubSeq(lanes', 1, Len(lanes)) = lanes
    /\ \A c \in 0..(C - 1) :
         LET lane == lanes'[Len(lanes) + c + 1] IN
         /\ lane.sourceFile = f
         /\ lane.channelIndex = c
         /\ lane.streamIndex = ProbeStream[f]
         /\ lane.totalChannels = C

\* The stack is what one drop onto an empty stack left: the channels of one
\* stream, in order.
FreshDrop(ls) ==
    /\ ls # <<>>
    /\ Len(ls) = ls[1].totalChannels
    /\ \A i \in 1..Len(ls) : /\ ls[i].channelIndex = i - 1
                             /\ ls[i].sourceFile = ls[1].sourceFile
                             /\ ls[i].streamIndex = ls[1].streamIndex

\* The pan filters of the command, in lane order ([m0], [m1], ...), select
\* c0, c1, ..., c(C-1).
SelectsChannelsInOrder(e) ==
    LET fs == FiltersOf(e.args)
        C  == Len(e.lanes)
    IN  /\ Cardinality({i \in 1..Len(fs) : IsPanFilter(fs[i])}) = C
        /\ \A k \in 1..C :
             /\ Cardinality(PansOfLane(fs, k)) = 1
             /\ \A i \in PansOfLane(fs, k) : PanSelects(fs[i]) = Str(k - 1)
        /\ PanChannelsOf(e.args) = [k \in 1..C |-> Str(k - 1)]

\* C18: a successful drop of a file whose first stream has C channels appends
\* exactly C lanes with channelIndex 0..C-1 in that order and the same
\* streamIndex and totalChannels; the multichannel command built for the
\* stack such a drop leaves selects c0..c(C-1) in lane order.
C18_DropThenExport ==
    [][ /\ LanesCreated => \E f \in Files : AppendedChannelsOf(f)
        /\ (lastExport' # NoExport /\ FreshDrop(lastExport'.lanes))
              => SelectsChannelsInOrder(lastExport') ]_vars

\* C18 witness: the two channels of a.wav were dropped onto an empty stack
\* and exported as they stood.
C18_Witness ==
    /\ lastExport # NoExport
    /\ FreshDrop(lastExport.lanes)
    /\ Len(lastExport.lanes) = 2
    /\ Len(lastExport.args) > 0

----------------------------------------------------------------------------
(* Claims about the envelope's extrema and a missing tool *)

\* The samples of channel ch (of tc) that the frames of bucket p (1-based)
\* hold, F frames being spread over buckets of spb frames.
BucketSamples(raw, ch, tc, F, spb, p) ==
    { Sample(raw.pattern, t * tc + ch) : t \in ((p - 1) * spb)..(Min({p * spb, F}) - 1) }

\* C19: in the envelope processAudioData writes, every bucket's min is
\* min(0, smallest sample of the lane's channel in the bucket) and its max is
\* max(0, largest such sample); so min <= 0 <= max in every bucket, and a
\* bucket holding only positive samples records min = 0.
C19_ExtremaStartAtZero ==
    [][ \A j \in JobIds :
           (jobObjs[j].pc = "process" /\ jobObjs'[j].pc = "callback" /\ Alive(jobObjs[j].lane))
           => LET u   == jobObjs[j].lane
                  raw == jobObjs[j].rawData
                  tc  == LaneOf(u).totalChannels
                  ch  == LaneOf(u).channelIndex
                  F   == (raw.size \div 4) \div tc
                  spb == IF F \div kDefaultEnvelopePoints > 1
                         THEN F \div kDefaultEnvelopePoints ELSE 1
                  env == waveform'[u]
              IN  F >= 1 =>
                    /\ Len(env.minValues) = env.numPoints
                    /\ Len(env.maxValues) = env.numPoints
                    /\ \A p \in 1..env.numPoints :
                         LET S == BucketSamples(raw, ch, tc, F, spb, p) IN
                         /\ env.minValues[p] \in S \cup {0}
                         /\ \A x \in S \cup {0} : env.minValues[p] <= x
                         /\ env.maxValues[p] \in S \cup {0}
                         /\ \A x \in S \cup {0} : env.maxValues[p] >= x
                         /\ env.minValues[p] <= 0
                         /\ env.maxValues[p] >= 0
                         /\ (S # {} /\ \A x \in S : x > 0) => env.minValues[p] = 0 ]_vars

\* C19 witness: a short decode (one frame per bucket) has been processed and
\* one bucket, holding a positive sample only, records min 0 and max > 0.
C19_Witness ==
    /\ jobObjs[1].pc = "callback"
    /\ waveform[1].isReady
    /\ waveform[1].numPoints \in 2..MaxSmallFrames
    /\ \E p \in 1..waveform[1].numPoints :
         waveform[1].minValues[p] = 0 /\ waveform[1].maxValues[p] > 0

\* C20: an extraction job that finds the transcode tool missing spawns no
\* decoder process, does not modify the lane's envelope and never invokes
\* its completion callback: it goes straight to the end of its thread.
C20_MissingToolDoesNothing ==
    \A j \in JobIds :
        jobObjs[j].noTool =>
            /\ ~jobObjs[j].process
            /\ ~jobObjs[j].wrote
            /\ jobObjs[j].fired = 0
            /\ jobObjs[j].pc \in {"erase", "done"}

\* C20 witness: a job found the tool missing and its thread has ended, the
\* lane still in the stack with the envelope of a new Lane.
C20_Witness ==
    \E j \in JobIds :
        /\ jobObjs[j].noTool
        /\ jobObjs[j].pc = "done"
        /\ Alive(jobObjs[j].lane)
        /\ waveform[jobObjs[j].lane] = EmptyEnvelope

----------------------------------------------------------------------------
(* Claims about the probe *)

\* The inputs of the latest probe.
ProbeToolAvailable == probe.inputs[1]
ProbeFileExists    == probe.inputs[2]
ProbeStarted       == probe.inputs[3]
ProbeExitCode      == probe.inputs[4]
ProbePayload       == probe.inputs[5]

\* C21: when the probe tool is unavailable or the file does not exist,
\* getAudioStreams returns without calling process.start, with success false
\* and a non-empty error message.
C21_ProbeFailsFast ==
    (probe.pc # "idle" /\ (~ProbeToolAvailable \/ ~ProbeFileExists)) =>
        /\ ~probe.spawned
        /\ ~probe.result.success
        /\ probe.result.errorMessage # <<>>
        /\ \A i \in 1..Len(probe.result.errorMessage) : probe.result.errorMessage[i] # ""

\* C21 witness: a probe of a missing file, the tool being there, has returned.
C21_Witness ==
    /\ probe.pc = "posted"
    /\ ProbeToolAvailable
    /\ ~ProbeFileExists
    /\ probe.result.errorMessage = <<"File not found: ", FileName[probe.file]>>

\* The probe process ran and ended with exit code 0: its payload is parsed.
PayloadParsed ==
    /\ probe.pc # "idle"
    /\ ProbeToolAvailable /\ ProbeFileExists /\ ProbeStarted
    /\ ProbeExitCode = 0

\* C22: a payload that parses to an object without a streams array gives
\* success with zero streams; a payload that cannot be parsed, or is not an
\* object, gives a failure with an error message; so the success flag tells
\* the two apart.
C22_NoStreamsIsSuccess ==
    PayloadParsed =>
        /\ (ProbePayload.kind = "object" /\ ProbePayload.streams # "array")
              => (probe.result.success /\ probe.result.streams = <<>>)
        /\ ProbePayload.kind # "object"
              => (~probe.result.success /\ probe.result.errorMessage # <<>>)

\* C22 witness: the callback of a probe whose payload had no streams array
\* has reported that no audio stream was found, and no lane was added.
C22_Witness ==
    /\ PayloadParsed
    /\ probe.pc = "shown"
    /\ ProbePayload.kind = "object"
    /\ ProbePayload.streams = "absent"
    /\ probe.shown = <<"No audio streams found in: ", FileName[probe.file]>>
    /\ lanes = <<>>

----------------------------------------------------------------------------
(* Claims about the transcode threads of an export *)

\* The thread of output file k of the latest export has ended, its callback
\* (when it posted one) included.
RunEnded(k) == runs[k].pc = "ended"

MultiFile(k) == runs[k].mode \in {"mono", "stereo"}

\* C23: in the mono-files and stereo-pairs modes every file's invocation is
\* attempted whatever became of the others, and every invocation that has
\* ended has reported its own outcome.
C23_EachFileReports ==
    \A k \in 1..Len(runs) :
        (MultiFile(k) /\ RunEnded(k)) =>
            /\ runs[k].starts = 1
            /\ runs[k].reports # <<>>

\* C24: in every mode, an invocation whose process could not be started is
\* tried once and ends with a failure message shown.
C24_StartFailureSurfaced ==
    \A k \in 1..Len(runs) :
        (RunEnded(k) /\ ~runs[k].started) =>
            /\ runs[k].starts = 1
            /\ Len(runs[k].reports) = 1
            /\ runs[k].reports[1] # <<>>

----------------------------------------------------------------------------
(* Claims about stop() *)

\* The message thread runs a deferred stop(): the callback getNextAudioBlock
\* posted at the end of the buffer.
DeferredStopRuns ==
    /\ controlPc = "idle"
    /\ messageQueue # <<>>
    /\ Head(messageQueue).kind = "stop"
    /\ messageQueue' = Tail(messageQueue)

\* C25: stop() is idempotent. A stop event is fired exactly in the steps
\* that take playing from true to false, one event per such step; a stop()
\* that runs while playing clears playing, and a stop() that runs while not
\* playing changes nothing of the player and fires nothing.
C25_StopIdempotent ==
    [][ /\ stoppedCount' = (IF playing /\ ~playing' THEN stoppedCount + 1 ELSE stoppedCount)
        /\ DeferredStopRuns =>
              /\ ~playing'
              /\ ~playing =>
                    UNCHANGED <<loadState, loadGeneration, playing, shuttingDown, audioBuffer,
                                currentSampleRate, readPosition, decodeThreads, controlPc,
                                startedCount, stoppedCount>> ]_vars

\* C25 witness: a stop() has already stopped playback and fired its event,
\* and a second stop(), posted at the end of the buffer, is about to run on
\* the stopped player.
C25_Witness ==
    /\ ~playing
    /\ startedCount = 1
    /\ stoppedCount = 1
    /\ controlPc = "idle"
    /\ messageQueue # <<>>
    /\ Head(messageQueue).kind = "stop"

----------------------------------------------------------------------------
(* Claims about the output file of a command *)

\* The codec a command encodes with, read from the word after "-c:a".
CodecWord(args) == args[PosOf(args, <<"-c:a">>) + 1]

CodecOfWord(w) ==
    CASE w \in { <<"pcm_s16le">>, <<"pcm_s24le">>, <<"pcm_f32le">> } -> "PCM_WAV"
      [] w = <<"aac">>       -> "AAC"
      [] w = <<"libvorbis">> -> "VORBIS"
      [] w = <<"libopus">>   -> "OPUS"

CodecOfCommand(args) == CodecOfWord(CodecWord(args))

\* The commands of the exports made so far that the state still holds.
BuiltCommands ==
    { e.args : e \in {x \in {lastExport, prevExport} : x # NoExport} }
    \cup { lastBatch.commands[k] : k \in 1..Len(lastBatch.commands) }

\* The last argument is a file name ending in "." and ext.
NamesFileWithExtension(args, ext) ==
    LET out == OutputOf(args)
    IN  /\ Len(out) >= 3
        /\ out[Len(out) - 1] = "."
        /\ out[Len(out)] = ext
        /\ \A i \in 1..(Len(out) - 2) : out[i] # ext \/ out[i + 1] = "."

\* C26: in each of the three modes the last argument of a built command is
\* the output file and its extension is getFileExtension of the codec the
\* command encodes with; commands built with different codecs name files
\* with different extensions.
C26_OutputExtensionOfCodec ==
    /\ \A args \in BuiltCommands :
          NamesFileWithExtension(args, getFileExtension([codec |-> CodecOfCommand(args)]))
    /\ \A a, b \in BuiltCommands :
          CodecOfCommand(a) # CodecOfCommand(b) =>
              OutputOf(a)[Len(OutputOf(a))] # OutputOf(b)[Len(OutputOf(b))]

\* C26 witness: a multichannel export to a chosen file named for another
\* codec, then one with another codec, and a per-file export with a third.
C26_Witness ==
    /\ lastExport # NoExport /\ prevExport # NoExport /\ lastBatch # NoBatch
    /\ Len(lastBatch.commands) >= 2
    /\ CodecOfCommand(lastExport.args) = "OPUS"
    /\ OutputOf(lastExport.args) = <<"take", ".", "1", ".", "opus">>
    /\ CodecOfCommand(prevExport.args) = "VORBIS"
    /\ CodecOfCommand(lastBatch.commands[1]) = "AAC"

----------------------------------------------------------------------------
(* Claims about the envelope as the message thread reads it *)

\* The vectors hold exactly numPoints entries each.
EnvelopeComplete(envelope) ==
    /\ Len(envelope.minValues) = envelope.numPoints
    /\ Len(envelope.maxValues) = envelope.numPoints

\* The envelope the running processAudioData call ends with.
WrittenEnvelope ==
    LET applied[k \in 0..Len(writer.stores)] ==
            IF k = 0 THEN EmptyEnvelope ELSE StoreApplied(applied[k - 1], writer.stores[k])
    IN  applied[Len(writer.stores)]

\* C27: whenever isReady is true in the memory the message thread reads, the
\* two vectors hold exactly numPoints entries each, and they are the entries
\* of a finished extraction (the one before, or the one now writing).
C27_ReadyMeansPopulated ==
    \A u \in Uuids :
        waveform[u].isReady =>
            /\ EnvelopeComplete(waveform[u])
            /\ (writer.lane = u /\ writer.stores # <<>>) =>
                  \/ waveform[u] \in PriorEnvelopes
                  \/ /\ waveform[u].minValues = WrittenEnvelope.minValues
                     /\ waveform[u].maxValues = WrittenEnvelope.maxValues

----------------------------------------------------------------------------
(* Claims about the end of the buffer *)

\* The read cursor is at the end of the buffer.
AtEnd == readPosition >= audioBuffer.numSamples

\* C28: a pull at the end of the buffer posts a deferred stop and leaves
\* playing as it is, and a deferred stop that ends a playback ends one whose
\* read cursor is at the end of the buffer.
C28_DeferredStopEndsItsRun ==
    [][ /\ (audioPc = "locked" /\ audioPc' = "idle" /\ audioBuffer.numSamples # 0 /\ AtEnd) =>
              /\ messageQueue' = Append(messageQueue, [kind |-> "stop", gen |-> 0])
              /\ playing' = playing /\ stoppedCount' = stoppedCount
        /\ (DeferredStopRuns /\ playing) => AtEnd ]_vars

----------------------------------------------------------------------------
(* Claims about the read cursor *)

\* The locked part of a getNextAudioBlock call runs in this step, on a player
\* that is playing and Ready.
PullWhilePlaying ==
    /\ audioPc = "locked" /\ audioPc' = "idle"
    /\ playing /\ loadState = "Ready"

FramesLeft == audioBuffer.numSamples - readPosition

\* positionSec of a notified position: readPosition / currentSampleRate, as
\* the fraction <<numerator, denominator>>.
PositionSec(pull, sampleRate) == <<pull.position, sampleRate>>

NotBefore(a, b) == a[1] * b[2] >= b[1] * a[2]

\* C29: the read cursor stays within the buffer; a pull on a playing,
\* Ready player with frames left copies min(frameCount, frames left) frames,
\* advances the cursor by that amount and notifies the position it reached,
\* which is later than the cursor was; with no frame left it copies nothing,
\* leaves the cursor and notifies nothing; and while one playback goes on
\* (no play() call begins or ends) the cursor never moves back.
C29_CursorWithinBuffer ==
    /\ [](0 <= readPosition /\ readPosition <= audioBuffer.numSamples)
    /\ [][ /\ (PullWhilePlaying /\ FramesLeft > 0) =>
                /\ lastPull'.asked \in 1..MaxFloats
                /\ lastPull'.frames = Min({lastPull'.asked, FramesLeft})
                /\ lastPull'.frames >= 1
                /\ readPosition' = readPosition + lastPull'.frames
                /\ PositionSec(lastPull', currentSampleRate')
                      = <<readPosition', currentSampleRate>>
                /\ ~NotBefore(<<readPosition, currentSampleRate>>,
                              PositionSec(lastPull', currentSampleRate'))
           /\ (PullWhilePlaying /\ FramesLeft <= 0) =>
                /\ lastPull' = NoPull
                /\ readPosition' = readPosition
           /\ (playing /\ playing' /\ controlPc' = controlPc
                  /\ startedCount' = startedCount) =>
                /\ readPosition' >= readPosition
                /\ currentSampleRate' = currentSampleRate ]_vars

\* C29 witness: a pull asked for more frames than were left has copied the
\* rest of the buffer, after an earlier pull, and the cursor is at the end.
C29_Witness ==
    /\ playing /\ loadState = "Ready"
    /\ audioPc = "idle"
    /\ lastPull.frames >= 1
    /\ lastPull.frames < lastPull.asked
    /\ lastPull.position = readPosition
    /\ lastPull.position > lastPull.frames
    /\ readPosition = audioBuffer.numSamples

----------------------------------------------------------------------------
(* Claims about the reloads of the preview player *)

\* The lanes of the latest loadLanes call, as the player copied them: none
\* before the first call and after a call with an empty stack.
LoadRequest == IF loadGeneration = 0 THEN <<>> ELSE decodeThreads[loadGeneration].infos

StackInfos(ls) == [i \in 1..Len(ls) |-> DecodeInfo(ls[i])]

LoadOutdated == LoadRequest # StackInfos(lanes)

\* C30: the player's load request is that of the current stack whenever no
\* debounce timer is running; a reorder reloads in the same step; adding and
\* removing lanes leave the timer running with the reload pending; and a load
\* request for an outdated stack is always followed by one for the stack as
\* it is after the last change.
C30_ReloadedAfterChange ==
    /\ [](~reload.timer => ~LoadOutdated)
    /\ [](reload.timer => reload.pending)
    /\ [][ /\ (lanes' # lanes /\ Len(lanes') = Len(lanes)) =>
                /\ loadGeneration' = loadGeneration + 1
                /\ LoadRequest' = StackInfos(lanes')
           /\ (Len(lanes') # Len(lanes)) =>
                /\ reload'.timer /\ reload'.pending
                /\ loadGeneration' = loadGeneration ]_vars
    /\ (LoadOutdated ~> ~LoadOutdated)

\* C30 witness: after two changes, the second a removal that made the load
\* request outdated, the timer has fired and the player holds the request
\* for the remaining lane.
C30_Witness ==
    /\ reload.changes = 2
    /\ ~reload.timer /\ ~reload.pending
    /\ Len(lanes) = 1
    /\ loadGeneration = 2
    /\ LoadRequest = StackInfos(lanes)

----------------------------------------------------------------------------
(* Claims about the listeners of ProjectModel *)

CallsTo(listener) == SelectSeq(calls, LAMBDA c : c.listener = listener)

Registered == {listeners[i] : i \in 1..Len(listeners)}

\* C31: a ProjectModel call that changes the stack calls each registered
\* listener exactly once per change before it returns, each call finding the
\* stack already changed (the added lane in place at the index given, the
\* removed lane gone, the reordered stack); a call that leaves the stack as
\* it was calls no listener, and nobody else is called.
C31_ListenersCalledOnce ==
    [][ LET removed == Len(lanes) - Len(lanes')
            to(l) == SelectSeq(calls', LAMBDA c : c.listener = l)
        IN  /\ \A i \in 1..Len(calls') : calls'[i].listener \in Registered
            /\ lanes' = lanes => calls' = <<>>
            /\ removed = -1 =>
                  \A l \in Registered :
                     /\ Len(to(l)) = 1
                     /\ to(l)[1].event = "laneAdded"
                     /\ to(l)[1].index = Len(lanes)
                     /\ to(l)[1].stack = lanes'
                     /\ to(l)[1].stack[to(l)[1].index + 1].uuid = nextUuid'
            /\ removed > 0 =>
                  \A l \in Registered :
                     /\ Len(to(l)) = removed
                     /\ \A k \in 1..removed :
                           /\ to(l)[k].event = "laneRemoved"
                           /\ Len(to(l)[k].stack) = Len(lanes) - k
                           /\ \A i \in 1..Len(to(l)[k].stack) :
                                 \E j \in 1..Len(lanes) : lanes[j] = to(l)[k].stack[i]
                     /\ to(l)[removed].stack = lanes'
                     /\ removed = 1 =>
                           /\ to(l)[1].index \in 0..(Len(lanes) - 1)
                           /\ lanes' = RemoveAt(lanes, to(l)[1].index + 1)
            /\ (removed = 0 /\ lanes' # lanes) =>
                  \A l \in Registered :
                     /\ Len(to(l)) = 1
                     /\ to(l)[1].event = "lanesReordered"
                     /\ to(l)[1].stack = lanes' ]_vars

\* C31 witness: clearAllLanes of two lanes has called both listeners twice.
C31_Witness ==
    /\ Len(listeners) = 2
    /\ lanes = <<>>
    /\ Len(calls) = 4
    /\ \A l \in ListenerNames : Len(CallsTo(l)) = 2

----------------------------------------------------------------------------
(* Claims about the inputs of a stereo pair *)

\* The pan filter of command args that produces label out.
PanProducing(args, out) ==
    LET fs == FiltersOf(args)
    IN  fs[CHOOSE i \in 1..Len(fs) : IsPanFilter(fs[i]) /\ fs[i][Len(fs[i])] = out]

\* The left and right lane of pair p (1-based) name the same file and stream.
SameSource(ls, p) ==
    /\ ls[2 * p - 1].sourceFile = ls[2 * p].sourceFile
    /\ ls[2 * p - 1].streamIndex = ls[2 * p].streamIndex

\* C32: in a stereo-pairs export, the command of a pair whose lanes name the
\* same file and streamIndex lists that file once and both its extractions
\* read input 0; the command of any other pair lists the left lane's file,
\* then the right lane's file, the left extraction reads input 0 and the
\* right one input 1; every extraction carries its own lane's streamIndex
\* and channelIndex.
C32_PairInputs ==
    lastBatch.mode = "stereo" =>
        LET ls == lastBatch.lanes IN
        \A p \in 1..Len(lastBatch.commands) :
            2 * p <= Len(ls) =>
                LET cmd   == lastBatch.commands[p]
                    L     == ls[2 * p - 1]
                    R     == ls[2 * p]
                    left  == PanProducing(cmd, "[left]")
                    right == PanProducing(cmd, "[right]")
                IN  /\ Len(FiltersOf(cmd)) = 3
                    /\ SameSource(ls, p) =>
                          /\ InputsOf(cmd) = << <<FileName[L.sourceFile]>> >>
                          /\ StreamPanInput(left) = Str(0)
                          /\ StreamPanInput(right) = Str(0)
                    /\ ~SameSource(ls, p) =>
                          /\ InputsOf(cmd) = << <<FileName[L.sourceFile]>>,
                                                <<FileName[R.sourceFile]>> >>
                          /\ StreamPanInput(left) = Str(0)
                          /\ StreamPanInput(right) = Str(1)
                    /\ StreamPanStream(left) = Str(L.streamIndex)
                    /\ StreamPanSelects(left) = Str(L.channelIndex)
                    /\ StreamPanStream(right) = Str(R.streamIndex)
                    /\ StreamPanSelects(right) = Str(R.channelIndex)

\* C32 witness: a stereo-pairs export of three lanes whose first pair names
\* two streams of one file (two inputs of the same file).
C32_Witness ==
    /\ lastBatch.mode = "stereo"
    /\ Len(lastBatch.lanes) = 3
    /\ lastBatch.lanes[1].sourceFile = lastBatch.lanes[2].sourceFile
    /\ lastBatch.lanes[1].streamIndex # lastBatch.lanes[2].streamIndex
    /\ Len(InputsOf(lastBatch.commands[1])) = 2

\* C32 witness: a pair whose lanes are two channels of one stream.
C32_WitnessShared ==
    /\ lastBatch.mode = "stereo"
    /\ Len(lastBatch.lanes) >= 2
    /\ SameSource(lastBatch.lanes, 1)
    /\ lastBatch.lanes[1].channelIndex # lastBatch.lanes[2].channelIndex
    /\ Len(InputsOf(lastBatch.commands[1])) = 1

----------------------------------------------------------------------------
(* The preview mix (SpecMix): one decode thread followed from the lanes it *)
(* was given to the stereo buffer it hands over. Samples are counted in    *)
(* thousandths and gains in millionths; every product is rounded to the    *)
(* nearest thousandth, as the float arithmetic rounds every product.       *)

MaxMixLanes  == 3    \* lanes handed to loadLanes
MaxMixFrames == 2    \* frames the decoder writes

SampleUnit == 1000       \* the sample value 1.0f
GainUnit   == 1000000    \* the gain 1.0f

\* Amplitudes of the audio in the files: 0.25 and 0.5 per step.
MixLevels == {250, 500}

Abs(x) == IF x < 0 THEN -x ELSE x

\* sample * gain, rounded to the nearest thousandth.
Scaled(sample, gain) ==
    LET magnitude == (Abs(sample) * Abs(gain) + GainUnit \div 2) \div GainUnit
    IN  IF (sample < 0) = (gain < 0) THEN magnitude ELSE -magnitude

\* The audio in the files: the sample of frame s of channel ch of the
\* stream with index stream of file f. Each stream holds other audio.
FileSample(f, stream, ch, s, level) ==
    LET step == ((f + stream + 2 * ch + s) % 3) + 1
    IN  IF s % 2 = 1 THEN -(level * step) ELSE level * step

\* The channels of a stream of file f.
StreamChannels(f) == ProbeChannels[f]

\* The lanes handleDroppedFile makes, as loadLanes copies them.
MixInfos == { DecodeInfo(NewLane(0, f, ch)) : f \in Files, ch \in 0..1 } \ 
            { DecodeInfo(NewLane(0, f, ch)) : f \in {g \in Files : ProbeChannels[g] < 2}, ch \in {1} }

MixStacks == UNION { [1..n -> MixInfos] : n \in 1..MaxMixLanes }

\* "-i <file> -map 0:a:<streamIndex>": the streams the decoder writes out.
DecodedStream(firstInfo) == NthAudioStream(firstInfo.sourceFile, firstInfo.streamIndex)

\* tempBuffer after de-interleaving: frames of numSourceChannels samples.
\* No stream selected: the decoder writes nothing.
deinterleaved(firstInfo, level, frames) ==
    IF DecodedStream(firstInfo) = {} THEN <<>>
    ELSE LET stream == CHOOSE x \in DecodedStream(firstInfo) : TRUE
         IN  [s \in 1..frames |->
                [ch \in 1..firstInfo.totalChannels |->
                    FileSample(firstInfo.sourceFile, stream, ch - 1, s - 1, level)]]

\* std::cos(pan * halfPi) and std::sin(pan * halfPi) in float, in
\* millionths, for pan = num / den.
CosHalfPi ==
    << <<1000000, 0>>,
       <<1000000, 707107, 0>>,
       <<1000000, 866025, 500000, 0>>,
       <<1000000, 923880, 707107, 382683, 0>> >>

SinHalfPi ==
    << <<0, 1000000>>,
       <<0, 707107, 1000000>>,
       <<0, 500000, 866025, 1000000>>,
       <<0, 382683, 707107, 923880, 1000000>> >>

\* Mutant of panOf: the index is divided by the number of lanes.
panOfCount(i, numLanes) == IF numLanes > 1 THEN <<i, numLanes>> ELSE <<1, 2>>

\* pan = (numLanes > 1) ? i / (numLanes - 1) : 0.5f, as <<numerator, denominator>>.
panOf(i, numLanes) == IF numLanes > 1 THEN <<i, numLanes - 1>> ELSE <<1, 2>>

leftGain(pan)  == CosHalfPi[pan[2]][pan[1] + 1]
rightGain(pan) == SinHalfPi[pan[2]][pan[1] + 1]

\* Mutant of skipsLane: no lane is skipped.
skipsNoLane(srcChannel, numSourceChannels) == FALSE

\* if (srcChannel >= numSourceChannels) continue;
skipsLane(srcChannel, numSourceChannels) == srcChannel >= numSourceChannels

\* getSample(srcChannel, s) of tempBuffer; outside the buffer the read is
\* out of bounds, shown as the value 0 - SampleUnit * SampleUnit.
getSample(temp, srcChannel, s) ==
    IF srcChannel + 1 \in DOMAIN temp[s] THEN temp[s][srcChannel + 1]
    ELSE 0 - SampleUnit * SampleUnit

\* The mix loop over lanes i..numLanes-1 for frame s: <<left, right>> added
\* to the cleared stereoBuffer.
RECURSIVE mixFrame(_, _, _, _)
mixFrame(infos, temp, s, i) ==
    IF i >= Len(infos) THEN <<0, 0>>
    ELSE LET srcChannel == infos[i + 1].channelIndex
             rest       == mixFrame(infos, temp, s, i + 1)
             pan        == panOf(i, Len(infos))
             sample     == getSample(temp, srcChannel, s)
         IN  IF skipsLane(srcChannel, infos[1].totalChannels) THEN rest
             ELSE << Scaled(sample, leftGain(pan)) + rest[1],
                     Scaled(sample, rightGain(pan)) + rest[2] >>

mixToStereo(infos, temp) == [s \in 1..Len(temp) |-> mixFrame(infos, temp, s, 0)]

\* stereoBuffer.getMagnitude(0, numSamples)
getMagnitude(stereo) ==
    Max({0} \cup {Abs(stereo[s][c]) : s \in 1..Len(stereo), c \in 1..2})

\* stereoBuffer.applyGain(gain)
applyGain(stereo, gain) ==
    [s \in 1..Len(stereo) |-> <<Scaled(stereo[s][1], gain), Scaled(stereo[s][2], gain)>>]

\* 0.9f / maxLevel, in millionths.
normalizeGain(maxLevel) == (900 * GainUnit + maxLevel \div 2) \div maxLevel

\* Mutant of normalized: the gain is applied whatever the peak.
normalizedAlways(stereo) ==
    LET maxLevel == getMagnitude(stereo)
    IN  IF maxLevel > 0 THEN applyGain(stereo, normalizeGain(maxLevel)) ELSE stereo

\* if (maxLevel > 1.0f) stereoBuffer.applyGain(0.9f / maxLevel);
normalized(stereo) ==
    LET maxLevel == getMagnitude(stereo)
    IN  IF maxLevel > SampleUnit THEN applyGain(stereo, normalizeGain(maxLevel)) ELSE stereo

mixUnchanged ==
    UNCHANGED <<lastExport, prevExport, lastBatch, probeVars, runVars, reloadVars, listenVars,
                modelVars, playerVars, extractVars>>

\* The decode: the command, the read loops and the de-interleave; with no
\* data decoded the thread reports the error and ends.
MixDecode ==
    /\ mix.pc = "start"
    /\ LET temp == deinterleaved(mix.infos[1], mix.level, mix.frames)
       IN  mix' = [mix EXCEPT !.temp = temp,
                              !.pc = IF temp = <<>> THEN "error" ELSE "mix"]
    /\ mixUnchanged

\* The mix loop.
MixLanes ==
    /\ mix.pc = "mix"
    /\ mix' = [mix EXCEPT !.mixed = mixToStereo(mix.infos, mix.temp), !.pc = "normalize"]
    /\ mixUnchanged

\* The normalisation; the buffer is then handed to onDecodeComplete.
MixNormalize ==
    /\ mix.pc = "normalize"
    /\ mix' = [mix EXCEPT !.stereo = normalized(mix.mixed), !.pc = "done"]
    /\ mixUnchanged

InitMix ==
    /\ InitModel
    /\ InitExportState
    /\ InitPlayer
    /\ InitExtractor
    /\ \E infos \in MixStacks, level \in MixLevels, frames \in 1..MaxMixFrames :
          mix = [NoMix EXCEPT !.pc = "start", !.infos = infos, !.level = level,
                              !.frames = frames]

NextMix == MixDecode \/ MixLanes \/ MixNormalize

SpecMix == InitMix /\ [][NextMix]_vars

----------------------------------------------------------------------------
(* Claims about the preview mix *)

\* What lane i (0-based) of infos adds to frame s (1-based) when the decode
\* delivers the stream the first lane names: channel channelIndex of that
\* stream, weighted by the lane's gains; nothing when the first lane's
\* stream has no such channel.
RECURSIVE FirstStreamMix(_, _, _, _)
FirstStreamMix(infos, level, s, i) ==
    IF i >= Len(infos) THEN <<0, 0>>
    ELSE LET first  == infos[1]
             ch     == infos[i + 1].channelIndex
             rest   == FirstStreamMix(infos, level, s, i + 1)
             sample == FileSample(first.sourceFile, first.streamIndex, ch, s - 1, level)
             pan    == IF Len(infos) > 1 THEN <<i, Len(infos) - 1>> ELSE <<1, 2>>
         IN  IF ch >= first.totalChannels THEN rest
             ELSE << Scaled(sample, CosHalfPi[pan[2]][pan[1] + 1]) + rest[1],
                     Scaled(sample, SinHalfPi[pan[2]][pan[1] + 1]) + rest[2] >>

\* C33: the decode of a non-empty lane list delivers audio, and the stereo
\* mix of every frame is the sum over the lanes of channel channelIndex of
\* the stream the first lane names (its sourceFile, its streamIndex), a lane
\* whose channelIndex that stream does not have adding nothing.
C33_MixOfFirstStream ==
    /\ mix.pc # "error"
    /\ mix.pc \in {"normalize", "done"} =>
          /\ Len(mix.mixed) = mix.frames
          /\ \A s \in 1..mix.frames :
                mix.mixed[s] = FirstStreamMix(mix.infos, mix.level, s, 0)

\* The largest magnitude in a stereo buffer.
Peak(buffer) ==
    Max({0} \cup {Abs(buffer[s][c]) : s \in 1..Len(buffer), c \in 1..2})

\* C39: when the mixed buffer's peak exceeds 1.0 the buffer handed over is
\* the mixed buffer scaled by one gain, 0.9 / peak, so that its peak is 0.9
\* (a peak of 1.5 becomes 0.9); when the peak is at most 1.0 the buffer
\* handed over is the mixed buffer (a peak of 0.5 stays 0.5).
C39_NormalizedToPointNine ==
    mix.pc = "done" =>
        LET peak == Peak(mix.mixed) IN
        /\ Len(mix.stereo) = Len(mix.mixed)
        /\ peak > SampleUnit =>
              /\ Peak(mix.stereo) = 900
              /\ \A s \in 1..Len(mix.mixed), c \in 1..2 :
                    /\ Abs(mix.stereo[s][c] * peak - mix.mixed[s][c] * 900) <= peak
                    /\ (mix.mixed[s][c] < 0) = (mix.stereo[s][c] < 0)
        /\ peak <= SampleUnit => mix.stereo = mix.mixed
        /\ peak = 1500 => Peak(mix.stereo) = 900
        /\ peak = 500 => Peak(mix.stereo) = 500

\* C39 witness: a mixed buffer whose peak is 1.5 was handed over with the
\* peak 0.9 and every sample scaled.
C39_Witness ==
    /\ mix.pc = "done"
    /\ Peak(mix.mixed) = 1500
    /\ Peak(mix.stereo) = 900
    /\ \E s \in 1..Len(mix.mixed), c \in 1..2 :
          Abs(mix.mixed[s][c]) \in 1..1499 /\ Abs(mix.stereo[s][c]) < Abs(mix.mixed[s][c])

\* A gain is the given value to three decimals.
About(gain, thousandths) == Abs(gain - thousandths * (GainUnit \div 1000)) <= GainUnit \div 1000

\* cos^2 + sin^2 of a pair of gains, in millionths, from the gains cut to
\* three decimals.
Power(left, right) == (left \div 1000) * (left \div 1000) + (right \div 1000) * (right \div 1000)

\* C40: for the n lanes of a decode the pan of lane i is i / (n - 1), and
\* 1/2 for a single lane; lane 0 gets the gains (1, 0) and the last of
\* several lanes (0, 1); the pan rises strictly with the lane index, the
\* left gain falling and the right gain rising with it; the gains are the
\* cosine and sine of one angle (their squares add up to 1, both are about
\* 0.707 at pan 1/2); and the mix uses them: a single lane is mixed at 0.707
\* to both sides, of two lanes the first goes left and the second right.
C40_ConstantPowerPan ==
    mix.pc \in {"normalize", "done"} =>
        LET n == Len(mix.infos)
            numSourceChannels == mix.infos[1].totalChannels
        IN
        /\ \A i \in 0..(n - 1) :
              LET pan == panOf(i, n) IN
              /\ pan[2] > 0
              /\ n > 1 => pan[1] * (n - 1) = i * pan[2]
              /\ n = 1 => 2 * pan[1] = pan[2]
              /\ Abs(Power(leftGain(pan), rightGain(pan)) - GainUnit) <= GainUnit \div 200
              /\ leftGain(pan) >= 0 /\ rightGain(pan) >= 0
              /\ 2 * pan[1] = pan[2] =>
                    About(leftGain(pan), 707) /\ About(rightGain(pan), 707)
              /\ i + 1 < n =>
                    LET next == panOf(i + 1, n) IN
                    /\ pan[1] * next[2] < next[1] * pan[2]
                    /\ leftGain(next) < leftGain(pan)
                    /\ rightGain(next) > rightGain(pan)
        /\ n > 1 =>
              /\ leftGain(panOf(0, n)) = GainUnit /\ rightGain(panOf(0, n)) = 0
              /\ leftGain(panOf(n - 1, n)) = 0 /\ rightGain(panOf(n - 1, n)) = GainUnit
        /\ n = 3 =>
              About(leftGain(panOf(1, 3)), 707) /\ About(rightGain(panOf(1, 3)), 707)
        /\ n = 1 =>
              \A s \in 1..Len(mix.mixed) :
                 LET sample == mix.temp[s][mix.infos[1].channelIndex + 1] IN
                 /\ mix.mixed[s][1] = mix.mixed[s][2]
                 /\ Abs(1000 * mix.mixed[s][1] - 707 * sample) <= 1000
        /\ (n = 2 /\ \A i \in 1..2 : mix.infos[i].channelIndex < numSourceChannels) =>
              \A s \in 1..Len(mix.mixed) :
                 mix.mixed[s] = << mix.temp[s][mix.infos[1].channelIndex + 1],
                                   mix.temp[s][mix.infos[2].channelIndex + 1] >>

\* C40 witness: three lanes of a two-channel stream were mixed, the middle
\* one at about 0.707 to both sides.
C40_Witness ==
    /\ mix.pc = "done"
    /\ Len(mix.infos) = 3
    /\ \A i \in 1..3 : mix.infos[i].channelIndex < mix.infos[1].totalChannels
    /\ \A s \in 1..Len(mix.mixed) :
          /\ mix.mixed[s][1] = mix.temp[s][mix.infos[1].channelIndex + 1]
                                  + Scaled(mix.temp[s][mix.infos[2].channelIndex + 1], 707107)
          /\ mix.mixed[s][2] = mix.temp[s][mix.infos[3].channelIndex + 1]
                                  + Scaled(mix.temp[s][mix.infos[2].channelIndex + 1], 707107)

----------------------------------------------------------------------------
(* Claims about the lifetime of an ExtractionJob *)

\* The thread of job j runs jobs.erase(laneId) in this step.
Erases(j) == jobObjs[j].pc = "erase" /\ jobObjs'[j].pc = "done"

\* C34: no ExtractionJob is destroyed while its thread is still in
\* runExtraction, and a thread that ends erases the registry entry of its
\* own job only (the entry it erases, if any, holds its own job).
C34_JobOutlivesItsWorker ==
    /\ [](\A j \in JobIds : Running(j) => ~jobObjs[j].freed)
    /\ [][ \A j \in JobIds :
             Erases(j) => jobs[jobObjs[j].lane] \in {0, j} ]_vars

----------------------------------------------------------------------------
(* Loads and their decode threads (SpecLoad): loadLanes, shutdown, the      *)
(* destructor, the decode threads and the callbacks they post.              *)

NextLoad ==
    \/ \E ls \in PlayerLaneLists : LoadLanes(ls)
    \/ Shutdown
    \/ Destroy
    \/ \E g \in Gens, started \in BOOLEAN : DecodeStart(g, started)
    \/ \E g \in Gens, n \in 0..MaxFloats : DecodeRead(g, n)
    \/ \E g \in Gens : DecodeFinal(g)
    \/ \E g \in Gens : DecodeMix(g)
    \/ \E g \in Gens : DecodePost(g)
    \/ RunCallback

SpecLoad == Init /\ [][NextLoad]_vars

\* A launched thread keeps running, the decoder it reads from ends, and the
\* message thread runs the callbacks posted to it.
SpecLoadFair ==
    /\ SpecLoad
    /\ \A g \in Gens :
          /\ WF_vars(\E started \in BOOLEAN : DecodeStart(g, started))
          /\ WF_vars(\E n \in 0..MaxFloats : DecodeRead(g, n))
          /\ WF_vars(DecodeFinal(g))
          /\ WF_vars(DecodeMix(g))
          /\ WF_vars(DecodePost(g))
    /\ WF_vars(RunCallback)

----------------------------------------------------------------------------
(* Claims about the end of a load *)

\* Generation g is that of a loadLanes call with lanes, the latest change of
\* the generation, and the player is not shutting down.
LoadCurrent(g) ==
    /\ loadGeneration = g
    /\ decodeThreads[g].pc # "idle"
    /\ ~shuttingDown

\* C35: a loadLanes call with lanes that is not superseded by a later
\* loadLanes call, by shutdown or by the destructor leaves Loading in the
\* end, for Ready or for Error.
C35_LoadingEnds ==
    \A g \in Gens :
        (LoadCurrent(g) /\ loadState = "Loading")
            ~> (~LoadCurrent(g) \/ loadState \in {"Ready", "Error"})

\* C35 witness: the second of two loads has ended in Error, its thread done
\* and its callback run.
C35_Witness ==
    /\ LoadCurrent(2)
    /\ decodeThreads[1].pc = "done"
    /\ decodeThreads[2].pc = "done"
    /\ messageQueue = <<>>
    /\ loadState = "Error"

\* The updateStatus call that set the status label last among those of the
\* latest export: the last report of the callback that ran last among the
\* callbacks that reported, or the message exportMonoWavFiles and
\* exportStereoPairs show before they launch the threads.
ExportStatus ==
    LET reported == { i \in CallbacksRun : runs[i].reports # <<>> }
    IN  IF reported = {}
        THEN IF runs[1].mode = "mono" THEN <<"Exporting mono files...">>
             ELSE <<"Exporting stereo pairs...">>
        ELSE LET last == CHOOSE i \in reported : \A j \in reported : runs[j].turn <= runs[i].turn
             IN  runs[last].reports[Len(runs[last].reports)]

\* Every per-file export of the batch has reported back: each process was
\* started and its callback has run on the message thread.
AllReportedBack ==
    /\ runs # <<>> /\ MultiFile(1) /\ RunsEnded
    /\ \A k \in 1..Len(runs) : runs[k].started /\ runs[k].turn > 0

\* C36: in a mono-files or stereo-pairs batch, once every per-file export
\* has reported back to the message thread, the status reads "Exported N ..."
\* only if all N invocations ended with exit code 0, in whatever order the
\* threads completed.
C36_ExportedMeansAllSucceeded ==
    (AllReportedBack /\ Head(ExportStatus) = "Exported ")
        => \A k \in 1..Len(runs) : runs[k].exitCode = 0

----------------------------------------------------------------------------
(* Claims about the consumers of an input stream *)

\* A label names an input stream of the command ([0:a], [1:a:0]) rather than
\* the output of another filter ([s0_1], [m2], [left]).
IsInputStream(label) == label # <<>> /\ Head(label) = "["

\* The filters of a command that read label: pan filters and splits have one
\* input each.
ConsumersOf(args, label) ==
    LET fs == FiltersOf(args)
    IN  { i \in 1..Len(fs) : \/ IsPanFilter(fs[i]) /\ PanInput(fs[i]) = label
                             \/ IsSplitFilter(fs[i]) /\ SplitInput(fs[i]) = label }

\* The input streams the filters of a command read.
InputStreamsRead(args) ==
    LET fs == FiltersOf(args)
    IN  { PanInput(fs[i]) : i \in { j \in 1..Len(fs) : IsPanFilter(fs[j]) } }
        \cup { SplitInput(fs[i]) : i \in { j \in 1..Len(fs) : IsSplitFilter(fs[j]) } }

\* Each input stream a command's filters read is read by one filter only.
ConsumedOnce(args) ==
    \A label \in InputStreamsRead(args) :
        IsInputStream(label) => Cardinality(ConsumersOf(args, label)) = 1

\* C37: in every export command of the three modes each input stream of the
\* filter graph is consumed by at most one filter: two extractions of one
\* command that read the same source stream are fed by a split and do not
\* both name the input stream.
C37_InputStreamConsumedOnce ==
    /\ lastExport # NoExport => ConsumedOnce(lastExport.args)
    /\ \A k \in 1..Len(lastBatch.commands) : ConsumedOnce(lastBatch.commands[k])

\* The multichannel commands alone.
C37_MultichannelConsumedOnce == lastExport # NoExport => ConsumedOnce(lastExport.args)

\* The mono-files commands alone.
C37_MonoConsumedOnce ==
    lastBatch.mode = "mono" =>
        \A k \in 1..Len(lastBatch.commands) : ConsumedOnce(lastBatch.commands[k])

----------------------------------------------------------------------------
(* Claims about ProjectModel::moveLane *)

\* The uuids of a stack, in order.
UuidsOf(ls) == [i \in 1..Len(ls) |-> ls[i].uuid]

\* The position (1-based) of the lane with this uuid in a stack.
PlaceOf(ls, uuid) == CHOOSE i \in 1..Len(ls) : ls[i].uuid = uuid

\* The stack without the lane with this uuid.
Without(ls, uuid) == LET other(lane) == lane.uuid # uuid IN SelectSeq(ls, other)

\* A moveLane(fromIndex, toIndex) call took this step as the claim says.
MovedAsClaimed(fromIndex, toIndex) ==
    LET size    == Len(lanes)
        inRange == fromIndex >= 0 /\ fromIndex < size /\ toIndex >= 0 /\ toIndex <= size
        noop    == toIndex = fromIndex \/ toIndex = fromIndex + 1
    IN  IF ~inRange \/ noop
        THEN lanes' = lanes /\ calls' = <<>>
        ELSE LET moved == lanes[fromIndex + 1].uuid IN
             /\ Len(lanes') = size
             /\ { lanes'[i] : i \in 1..size } = { lanes[i] : i \in 1..size }
             /\ \A i, j \in 1..size : i # j => lanes'[i].uuid # lanes'[j].uuid
             /\ IF toIndex = size
                THEN lanes'[size].uuid = moved
                ELSE /\ PlaceOf(lanes', moved) < size
                     /\ lanes'[PlaceOf(lanes', moved) + 1] = lanes[toIndex + 1]
             /\ Without(lanes', moved) = Without(lanes, moved)
             /\ Len(calls') = Len(listeners)
             /\ \A i \in 1..Len(calls') : calls'[i].event = "lanesReordered"

\* C38: moveLane(from, to) with 0 <= from < size and 0 <= to <= size keeps
\* the same lanes (none lost, none duplicated), puts the moved lane
\* immediately before the lane that was at index to (last when to = size)
\* and keeps the order of the other lanes; with to = from or to = from + 1
\* it changes nothing and notifies nobody, and with an index out of range
\* the list is unchanged.
C38_MoveLane ==
    [][\A fromIndex \in -1..Len(lanes), toIndex \in -1..(Len(lanes) + 1) :
          MoveLaneCall(fromIndex, toIndex) => MovedAsClaimed(fromIndex, toIndex)]_vars

\* C38 witness: a stack of three lanes, with a listener registered, after
\* its first lane was moved in front of its third: the listener was told.
C38_Witness ==
    /\ Len(lanes) = 3
    /\ UuidsOf(lanes) = <<2, 1, 3>>
    /\ calls # <<>> /\ calls[1].event = "lanesReordered"
====
